---- MODULE Spec2Model ----
(***************************************************************************)
(* A model of bfuck: the Brainfuck front-end (code.rs: lexer, adjacency    *)
(* merge, bracket validator, the three pattern passes, jump resolver),     *)
(* the byte I/O port (io.rs), the interpreter (interpret.rs) and the JIT   *)
(* (jit.rs: emission of the IR and execution of the emitted routine).      *)
(***************************************************************************)
EXTENDS Integers, Sequences, FiniteSets, TLC

(***************************************************************************)
(* Program constants.                                                      *)
(***************************************************************************)
\* code.rs:10  pub const STORAGE_SIZE: usize = 30_000;
STORAGE_SIZE == 30000

\* u8 arithmetic wraps modulo 256 (u8::MAX + 1)
U8_MOD == 256

\* b'\r' (io.rs:26)
CR == 13

\* putchar writes a byte only when byte < 128 (io.rs:35)
ASCII_LIMIT == 128

(***************************************************************************)
(* Bounds of the model.                                                    *)
(***************************************************************************)
\* every source text of at most this many characters is an initial state
MaxSrcLen == 3

\* standard input holds at most this many read results before end-of-file
MaxInput == 1

\* instruction budget of one run under Spec (a run that exhausts it is cut)
MaxSteps == 24

\* arbitrary located streams given to merge_adjacent have at most this length
MaxStream == 4

\* pattern programs: at most this many "+" before the loop and inside "[+..]"
MaxFill == 2

\* pattern programs: the loop moves at most this many cells at a time
MaxDist == 2

\* pattern programs: the loop is wrapped in at most this many loops in all
MaxNest == 2

\* read/write programs: standard input holds at most this many read results
MaxRead == 3

\* instructions one run of a clear-loop program may execute
ClearBudget == 1024

\* instructions the run of the documented echo program may execute
EchoBudget == 40

(***************************************************************************)
(* Tokens (code.rs Token) and located tokens (Token, usize, usize).        *)
(***************************************************************************)
Tok(op, a, b) == [op |-> op, a |-> a, b |-> b]

Add(n) == Tok("Add", n, 0)

Move(n) == Tok("Move", n, 0)

Input == Tok("Input", 0, 0)

Output == Tok("Output", 0, 0)

OpenBr(d) == Tok("OpenBr", d, 0)

CloseBr(d) == Tok("CloseBr", d, 0)

ClearCell == Tok("ClearCell", 0, 0)

AddTo(d) == Tok("AddTo", d, 0)

AddToCopy(d1, d2) == Tok("AddToCopy", d1, d2)

Loc(token, row, col) == [tok |-> token, row |-> row, col |-> col]

\* 0-based indexing of a Vec
At(v, i) == v[i + 1]

\* v[i] = x
SetAt(v, i, x) == [v EXCEPT ![i + 1] = x]

\* tokens[i].0 = token  (the location of the element is kept)
SetTok(tokens, i, token) == [tokens EXCEPT ![i + 1].tok = token]

\* tokens.drain(lo..=hi)
Drain(tokens, lo, hi) ==
    SubSeq(tokens, 1, lo) \o SubSeq(tokens, hi + 2, Len(tokens))

\* into_iter().map(|(token, _, _)| token).collect()
StripLoc(tokens) == [k \in 1..Len(tokens) |-> tokens[k].tok]

(***************************************************************************)
(* Lexer: process_code, code.rs:126-140.                                   *)
(***************************************************************************)
\* str::lines(): split at "\n", one trailing "\r" of a line is stripped,
\* a final empty line is not yielded.  cur is the part of the current line
\* read so far, so Len(cur) < k always holds; stating it makes cur a value
\* at every step instead of a chain of pending Appends.
RECURSIVE SplitLines(_, _, _)
SplitLines(code, k, cur) ==
    IF k > Len(code)
    THEN IF cur = <<>> THEN <<>> ELSE <<cur>>
    ELSE IF Len(cur) < k /\ code[k] = "\n"
         THEN LET line == IF cur # <<>> /\ cur[Len(cur)] = "\r"
                          THEN SubSeq(cur, 1, Len(cur) - 1) ELSE cur
              IN  <<line>> \o SplitLines(code, k + 1, <<>>)
         ELSE SplitLines(code, k + 1, Append(cur, code[k]))

Lines(code) == SplitLines(code, 1, <<>>)

\* a plausible slip: the column is left zero-based
LocatedFromZero(token, i, j) == Loc(token, i + 1, j)

\* (token, i + 1, j + 1); i, j are the enumerate() indices
Located(token, i, j) == Loc(token, i + 1, j + 1)

\* the match of code.rs:128-138
LexChar(character, i, j) ==
    CASE character = "+" -> <<Located(Add(1), i, j)>>
      [] character = "-" -> <<Located(Add(U8_MOD - 1), i, j)>>
      [] character = "<" -> <<Located(Move(STORAGE_SIZE - 1), i, j)>>
      [] character = ">" -> <<Located(Move(1), i, j)>>
      [] character = "," -> <<Located(Input, i, j)>>
      [] character = "." -> <<Located(Output, i, j)>>
      [] character = "[" -> <<Located(OpenBr(0), i, j)>>
      [] character = "]" -> <<Located(CloseBr(0), i, j)>>
      [] OTHER -> <<>>

RECURSIVE LexLine(_, _, _)
LexLine(line, i, j) ==
    IF j >= Len(line) THEN <<>>
    ELSE LexChar(At(line, j), i, j) \o LexLine(line, i, j + 1)

RECURSIVE LexLines(_, _)
LexLines(lines, i) ==
    IF i >= Len(lines) THEN <<>>
    ELSE LexLine(At(lines, i), i, 0) \o LexLines(lines, i + 1)

Lex(code) == LexLines(Lines(code), 0)

(***************************************************************************)
(* merge_adjacent, code.rs:172-202.                                        *)
(***************************************************************************)
\* optimized_tokens.pop()
Pop(v) == SubSeq(v, 1, Len(v) - 1)

\* *n = value, through optimized_tokens.last_mut()
SetLast(v, token) == [v EXCEPT ![Len(v)].tok = token]

\* a plausible slip: the merged token is kept when its value is 0
merge_store_keep_zero(optimized_tokens, merged) == SetLast(optimized_tokens, merged)

\* *n = sum; if *n == 0 { optimized_tokens.pop(); }  (code.rs:179-182, 189-192)
merge_store(optimized_tokens, merged) ==
    IF merged.a = 0 THEN Pop(optimized_tokens)
    ELSE SetLast(optimized_tokens, merged)

\* a plausible slip: only Adds are merged
merge_step_adds_only(optimized_tokens, token) ==
    IF optimized_tokens # <<>>
          /\ optimized_tokens[Len(optimized_tokens)].tok.op = "Add"
          /\ token.tok.op = "Add"
    THEN merge_store(optimized_tokens,
                     Add((optimized_tokens[Len(optimized_tokens)].tok.a + token.tok.a)
                            % U8_MOD))
    ELSE Append(optimized_tokens, token)

\* one iteration of the for loop
merge_step(optimized_tokens, token) ==
    IF optimized_tokens = <<>> THEN Append(optimized_tokens, token)
    ELSE LET last == optimized_tokens[Len(optimized_tokens)].tok IN
         CASE last.op = "Add" ->
                IF token.tok.op = "Add"
                THEN merge_store(optimized_tokens,
                                 Add((last.a + token.tok.a) % U8_MOD))
                ELSE Append(optimized_tokens, token)
           [] last.op = "Move" ->
                IF token.tok.op = "Move"
                THEN merge_store(optimized_tokens,
                                 Move((last.a + token.tok.a) % STORAGE_SIZE))
                ELSE Append(optimized_tokens, token)
           [] OTHER -> Append(optimized_tokens, token)

\* for token in tokens: optimized_tokens holds at most the k - 1 tokens read,
\* so the second disjunct never holds; it makes optimized_tokens a value at
\* every step instead of a chain of pending merge_steps
RECURSIVE merge_loop(_, _, _)
merge_loop(tokens, k, optimized_tokens) ==
    IF k > Len(tokens) \/ Len(optimized_tokens) >= k THEN optimized_tokens
    ELSE merge_loop(tokens, k + 1, merge_step(optimized_tokens, tokens[k]))

\* a plausible slip: a token is merged when its predecessor in the input is
\* of its kind, not when the last kept token is
RECURSIVE merge_loop_pairwise(_, _, _)
merge_loop_pairwise(tokens, k, optimized_tokens) ==
    IF k > Len(tokens) THEN optimized_tokens
    ELSE merge_loop_pairwise(tokens, k + 1,
             IF k > 1 /\ tokens[k - 1].tok.op = tokens[k].tok.op
             THEN merge_step(optimized_tokens, tokens[k])
             ELSE Append(optimized_tokens, tokens[k]))

merge_adjacent_pairwise(tokens) == merge_loop_pairwise(tokens, 1, <<>>)

merge_adjacent(tokens) == merge_loop(tokens, 1, <<>>)

(***************************************************************************)
(* check_loops, code.rs:213-230.  The result is Ok(()) or one Error.       *)
(***************************************************************************)
Ok == [kind |-> "Ok", row |-> 0, col |-> 0]

UnmatchedOpenBr(row, col) == [kind |-> "UnmatchedOpenBr", row |-> row, col |-> col]

UnmatchedCloseBr(row, col) == [kind |-> "UnmatchedCloseBr", row |-> row, col |-> col]

\* a plausible slip: the line and the column change places
close_error_swapped(t) == UnmatchedCloseBr(t.col, t.row)

\* Err(Error::UnmatchedCloseBr(*row, *col)), code.rs:220
close_error(t) == UnmatchedCloseBr(t.row, t.col)

\* a plausible slip: the first opener pushed is reported, not the last
open_error_bottom(loop_stack) == UnmatchedOpenBr(loop_stack[1][1], loop_stack[1][2])

\* match loop_stack.pop() { Some((row, col)) => Err(UnmatchedOpenBr(row, col)) },
\* code.rs:226-227
open_error(loop_stack) ==
    UnmatchedOpenBr(loop_stack[Len(loop_stack)][1], loop_stack[Len(loop_stack)][2])

RECURSIVE check_loops_loop(_, _, _)
check_loops_loop(tokens, k, loop_stack) ==
    IF k > Len(tokens)
    THEN IF loop_stack # <<>> THEN open_error(loop_stack) ELSE Ok
    ELSE LET t == tokens[k] IN
         CASE t.tok.op = "OpenBr" ->
                check_loops_loop(tokens, k + 1, Append(loop_stack, <<t.row, t.col>>))
           [] t.tok.op = "CloseBr" ->
                IF loop_stack = <<>> THEN close_error(t)
                ELSE check_loops_loop(tokens, k + 1, Pop(loop_stack))
           [] OTHER -> check_loops_loop(tokens, k + 1, loop_stack)

check_loops(tokens) == check_loops_loop(tokens, 1, <<>>)

(***************************************************************************)
(* calculate_jumps, code.rs:236-251.  loop_stack.pop().unwrap() panics on  *)
(* an empty stack: the result carries that outcome.                        *)
(***************************************************************************)
\* a plausible slip: the tokens between the brackets are counted
jump_distance_between(i, open_br) == i - open_br - 1

\* let distance = i - open_br;  code.rs:244
jump_distance(i, open_br) == i - open_br

RECURSIVE calculate_jumps_loop(_, _, _)
calculate_jumps_loop(tokens, i, loop_stack) ==
    IF i >= Len(tokens)
    THEN [tokens |-> tokens, panicked |-> FALSE, loop_stack |-> loop_stack]
    ELSE CASE At(tokens, i).tok.op = "OpenBr" ->
                calculate_jumps_loop(tokens, i + 1, Append(loop_stack, i))
           [] At(tokens, i).tok.op = "CloseBr" ->
                IF loop_stack = <<>>
                THEN [tokens |-> tokens, panicked |-> TRUE, loop_stack |-> loop_stack]
                ELSE LET open_br == loop_stack[Len(loop_stack)]
                         distance == jump_distance(i, open_br)
                     IN  calculate_jumps_loop(
                             SetTok(SetTok(tokens, open_br, OpenBr(distance)),
                                    i, CloseBr(distance)),
                             i + 1, Pop(loop_stack))
           [] OTHER -> calculate_jumps_loop(tokens, i + 1, loop_stack)

calculate_jumps(tokens) == calculate_jumps_loop(tokens, 0, <<>>)

(***************************************************************************)
(* The pattern passes.  Each returns the rewritten stream and whether an   *)
(* index or a usize subtraction of the pass went out of range (a panic).   *)
(***************************************************************************)
PassResult(tokens, i, panicked) == [tokens |-> tokens, i |-> i, panicked |-> panicked]

\* the operand of a subtraction or an index is out of range
OutOfRange(tokens, i) == i < 0 \/ i >= Len(tokens)

IsOp(tokens, i, op) == At(tokens, i).tok.op = op

(***************************************************************************)
(* clear_cell, code.rs:257-291.                                            *)
(***************************************************************************)
\* a plausible slip: only the token before the new one is looked at
clear_cell_absorb_left(tokens, i) ==
    IF i # 0 /\ i # Len(tokens) - 1 /\ IsOp(tokens, i - 1, "OpenBr")
    THEN PassResult(Drain(SetTok(tokens, i - 1, ClearCell), i, i + 1), i - 1, FALSE)
    ELSE PassResult(tokens, i, FALSE)

\* the while loop of code.rs:272-286
RECURSIVE clear_cell_absorb(_, _)
clear_cell_absorb(tokens, i) ==
    IF Len(tokens) = 0 THEN PassResult(tokens, i, TRUE)
    ELSE IF i # 0 /\ i # Len(tokens) - 1
    THEN IF OutOfRange(tokens, i - 1) \/ OutOfRange(tokens, i + 1)
         THEN PassResult(tokens, i, TRUE)
         ELSE IF IsOp(tokens, i - 1, "OpenBr") /\ IsOp(tokens, i + 1, "CloseBr")
              THEN clear_cell_absorb(
                       Drain(SetTok(tokens, i - 1, ClearCell), i, i + 1), i - 1)
              ELSE PassResult(tokens, i, FALSE)
    ELSE PassResult(tokens, i, FALSE)

\* a plausible slip: any single instruction is taken for the body
clear_cell_match_any_body(tokens, i) ==
    /\ IsOp(tokens, i, "OpenBr")
    /\ ~IsOp(tokens, i + 1, "OpenBr")
    /\ ~IsOp(tokens, i + 1, "CloseBr")
    /\ IsOp(tokens, i + 2, "CloseBr")

\* the triple test of code.rs:265-267
clear_cell_match(tokens, i) ==
    /\ IsOp(tokens, i, "OpenBr")
    /\ IsOp(tokens, i + 1, "Add")
    /\ IsOp(tokens, i + 2, "CloseBr")

\* the outer while loop; i is the index before checked_sub(1)
RECURSIVE clear_cell_scan(_, _)
clear_cell_scan(tokens, i) ==
    IF i = 0 THEN PassResult(tokens, i, FALSE)
    ELSE LET new_i == i - 1 IN
         IF new_i > Len(tokens) THEN PassResult(tokens, new_i, TRUE)
         ELSE IF Len(tokens) - new_i < 3 THEN clear_cell_scan(tokens, new_i)
         ELSE IF clear_cell_match(tokens, new_i)
              THEN LET r == clear_cell_absorb(
                                Drain(SetTok(tokens, new_i, ClearCell),
                                      new_i + 1, new_i + 2), new_i)
                   IN  IF r.panicked THEN r ELSE clear_cell_scan(r.tokens, r.i)
              ELSE clear_cell_scan(tokens, new_i)

clear_cell(tokens) == clear_cell_scan(tokens, Len(tokens))

(***************************************************************************)
(* add_to, code.rs:296-338.                                                *)
(***************************************************************************)
\* a plausible slip: the loops around the new token are left in place
add_to_absorb_none(tokens, i) == PassResult(tokens, i, FALSE)

\* the while loop of code.rs:315-329
RECURSIVE add_to_absorb(_, _)
add_to_absorb(tokens, i) ==
    IF Len(tokens) = 0 THEN PassResult(tokens, i, TRUE)
    ELSE IF i # 0 /\ i # Len(tokens) - 1
    THEN IF OutOfRange(tokens, i - 1) \/ OutOfRange(tokens, i + 1)
         THEN PassResult(tokens, i, TRUE)
         ELSE IF IsOp(tokens, i - 1, "OpenBr") /\ IsOp(tokens, i + 1, "CloseBr")
              THEN add_to_absorb(
                       Drain(SetTok(tokens, i - 1, At(tokens, i).tok), i, i + 1),
                       i - 1)
              ELSE PassResult(tokens, i, FALSE)
    ELSE PassResult(tokens, i, FALSE)

\* a plausible slip: the sum of the two moves is not tested
add_to_match_any_sum(tokens, i) ==
    /\ IsOp(tokens, i, "OpenBr")
    /\ At(tokens, i + 1).tok = Add(U8_MOD - 1)
    /\ IsOp(tokens, i + 2, "Move")
    /\ At(tokens, i + 3).tok = Add(1)
    /\ IsOp(tokens, i + 4, "Move")
    /\ IsOp(tokens, i + 5, "CloseBr")

\* the window test of code.rs:304-310
add_to_match(tokens, i) ==
    /\ IsOp(tokens, i, "OpenBr")
    /\ At(tokens, i + 1).tok = Add(U8_MOD - 1)
    /\ IsOp(tokens, i + 2, "Move")
    /\ At(tokens, i + 3).tok = Add(1)
    /\ IsOp(tokens, i + 4, "Move")
    /\ IsOp(tokens, i + 5, "CloseBr")
    /\ (At(tokens, i + 2).tok.a + At(tokens, i + 4).tok.a) % STORAGE_SIZE = 0

\* a plausible slip: the distance of the way back is taken
add_to_token_back(tokens, i) == AddTo(At(tokens, i + 4).tok.a)

\* the token written at code.rs:311
add_to_token(tokens, i) == AddTo(At(tokens, i + 2).tok.a)

RECURSIVE add_to_scan(_, _)
add_to_scan(tokens, i) ==
    IF i = 0 THEN PassResult(tokens, i, FALSE)
    ELSE LET new_i == i - 1 IN
         IF new_i > Len(tokens) THEN PassResult(tokens, new_i, TRUE)
         ELSE IF Len(tokens) - new_i < 6 THEN add_to_scan(tokens, new_i)
         ELSE IF add_to_match(tokens, new_i)
              THEN LET r == add_to_absorb(
                                Drain(SetTok(tokens, new_i, add_to_token(tokens, new_i)),
                                      new_i + 1, new_i + 5), new_i)
                   IN  IF r.panicked THEN r ELSE add_to_scan(r.tokens, r.i)
              ELSE add_to_scan(tokens, new_i)

add_to(tokens) == add_to_scan(tokens, Len(tokens))

(***************************************************************************)
(* add_to_copy, code.rs:343-389.                                           *)
(***************************************************************************)
\* a plausible slip: the ends of the stream are not tested
RECURSIVE add_to_copy_absorb_unbounded(_, _)
add_to_copy_absorb_unbounded(tokens, i) ==
    IF OutOfRange(tokens, i - 1) \/ OutOfRange(tokens, i + 1)
    THEN PassResult(tokens, i, TRUE)
    ELSE IF IsOp(tokens, i - 1, "OpenBr") /\ IsOp(tokens, i + 1, "CloseBr")
         THEN add_to_copy_absorb_unbounded(
                  Drain(SetTok(tokens, i - 1, At(tokens, i).tok), i, i + 1), i - 1)
         ELSE PassResult(tokens, i, FALSE)

\* the while loop of code.rs:364-378
RECURSIVE add_to_copy_absorb(_, _)
add_to_copy_absorb(tokens, i) ==
    IF Len(tokens) = 0 THEN PassResult(tokens, i, TRUE)
    ELSE IF i # 0 /\ i # Len(tokens) - 1
    THEN IF OutOfRange(tokens, i - 1) \/ OutOfRange(tokens, i + 1)
         THEN PassResult(tokens, i, TRUE)
         ELSE IF IsOp(tokens, i - 1, "OpenBr") /\ IsOp(tokens, i + 1, "CloseBr")
              THEN add_to_copy_absorb(
                       Drain(SetTok(tokens, i - 1, At(tokens, i).tok), i, i + 1),
                       i - 1)
              ELSE PassResult(tokens, i, FALSE)
    ELSE PassResult(tokens, i, FALSE)

\* a plausible slip: the second inner Add is not tested to be 1
add_to_copy_match_any_add(tokens, i) ==
    /\ IsOp(tokens, i, "OpenBr")
    /\ At(tokens, i + 1).tok = Add(U8_MOD - 1)
    /\ IsOp(tokens, i + 2, "Move")
    /\ At(tokens, i + 3).tok = Add(1)
    /\ IsOp(tokens, i + 4, "Move")
    /\ IsOp(tokens, i + 5, "Add")
    /\ IsOp(tokens, i + 6, "Move")
    /\ IsOp(tokens, i + 7, "CloseBr")
    /\ (((At(tokens, i + 2).tok.a + At(tokens, i + 4).tok.a) % STORAGE_SIZE)
          + At(tokens, i + 6).tok.a) % STORAGE_SIZE = 0

\* the window test of code.rs:351-359
add_to_copy_match(tokens, i) ==
    /\ IsOp(tokens, i, "OpenBr")
    /\ At(tokens, i + 1).tok = Add(U8_MOD - 1)
    /\ IsOp(tokens, i + 2, "Move")
    /\ At(tokens, i + 3).tok = Add(1)
    /\ IsOp(tokens, i + 4, "Move")
    /\ At(tokens, i + 5).tok = Add(1)
    /\ IsOp(tokens, i + 6, "Move")
    /\ IsOp(tokens, i + 7, "CloseBr")
    /\ (((At(tokens, i + 2).tok.a + At(tokens, i + 4).tok.a) % STORAGE_SIZE)
          + At(tokens, i + 6).tok.a) % STORAGE_SIZE = 0

\* a plausible slip: the second distance is taken from the first target,
\* not from the loop's cell
add_to_copy_token_relative(tokens, i) ==
    AddToCopy(At(tokens, i + 2).tok.a, At(tokens, i + 4).tok.a)

\* a plausible slip: the second distance is not reduced modulo the tape size
add_to_copy_token_unwrapped(tokens, i) ==
    AddToCopy(At(tokens, i + 2).tok.a,
              At(tokens, i + 2).tok.a + At(tokens, i + 4).tok.a)

\* the token written at code.rs:360
add_to_copy_token(tokens, i) ==
    AddToCopy(At(tokens, i + 2).tok.a,
              (At(tokens, i + 2).tok.a + At(tokens, i + 4).tok.a) % STORAGE_SIZE)

RECURSIVE add_to_copy_scan(_, _)
add_to_copy_scan(tokens, i) ==
    IF i = 0 THEN PassResult(tokens, i, FALSE)
    ELSE LET new_i == i - 1 IN
         IF new_i > Len(tokens) THEN PassResult(tokens, new_i, TRUE)
         ELSE IF Len(tokens) - new_i < 8 THEN add_to_copy_scan(tokens, new_i)
         ELSE IF add_to_copy_match(tokens, new_i)
              THEN LET r == add_to_copy_absorb(
                                Drain(SetTok(tokens, new_i,
                                             add_to_copy_token(tokens, new_i)),
                                      new_i + 1, new_i + 7), new_i)
                   IN  IF r.panicked THEN r ELSE add_to_copy_scan(r.tokens, r.i)
              ELSE add_to_copy_scan(tokens, new_i)

add_to_copy(tokens) == add_to_copy_scan(tokens, Len(tokens))

(***************************************************************************)
(* process_code, code.rs:120-162, as one function: the Result it returns.  *)
(***************************************************************************)
Err(error) == [ok |-> FALSE, tokens |-> <<>>, error |-> error, panicked |-> FALSE]

Panic == [ok |-> FALSE, tokens |-> <<>>, error |-> Ok, panicked |-> TRUE]

Returned(token_stream) ==
    [ok |-> TRUE, tokens |-> token_stream, error |-> Ok, panicked |-> FALSE]

process_code(code) ==
    LET merged == merge_adjacent(Lex(code))
        checked == check_loops(merged)
    IN  IF checked # Ok THEN Err(checked)
        ELSE LET p1 == clear_cell(merged) IN
             IF p1.panicked THEN Panic
             ELSE LET p2 == add_to(p1.tokens) IN
             IF p2.panicked THEN Panic
             ELSE LET p3 == add_to_copy(p2.tokens) IN
             IF p3.panicked THEN Panic
             ELSE LET p4 == calculate_jumps(p3.tokens) IN
             IF p4.panicked THEN Panic
             ELSE Returned(StripLoc(p4.tokens))

(***************************************************************************)
(* The byte I/O port, io.rs.  Standard input is a finite sequence of read  *)
(* results (a byte, or an I/O error, written -1) followed by end-of-file.  *)
(* port = [rd: read results consumed, stdout: bytes written, flushed: how  *)
(* many of them are flushed, stderr: messages reported].                   *)
(***************************************************************************)
IsIoError(r) == r < 0

\* a plausible slip: a carriage return is returned like any other byte
getchar_loop_once(input, rd, read_char, errs) ==
    LET eof == rd >= Len(input)
        failed == ~eof /\ IsIoError(At(input, rd))
    IN  [byte |-> IF eof THEN 0 ELSE IF failed THEN read_char ELSE At(input, rd),
         rd |-> IF eof THEN rd ELSE rd + 1,
         errs |-> IF failed THEN errs + 1 ELSE errs]

\* the loop of getchar, io.rs:15-26
RECURSIVE getchar_loop(_, _, _, _)
getchar_loop(input, rd, read_char, errs) ==
    LET eof == rd >= Len(input)
        failed == ~eof /\ IsIoError(At(input, rd))
        c == IF eof THEN 0 ELSE IF failed THEN read_char ELSE At(input, rd)
        rd2 == IF eof THEN rd ELSE rd + 1
        errs2 == IF failed THEN errs + 1 ELSE errs
    IN  IF c # CR THEN [byte |-> c, rd |-> rd2, errs |-> errs2]
        ELSE getchar_loop(input, rd2, c, errs2)

\* io::stdout().flush(), io.rs:12: all bytes written so far are flushed;
\* flushed_rd keeps how many read results were consumed at that moment
getchar_flush(port) ==
    [port EXCEPT !.flushed = Len(port.stdout), !.flushed_rd = port.rd]

\* a plausible slip: the output is flushed after the read, not before it
getchar_flush_late(input, port) ==
    LET r == getchar_loop(input, port.rd, 0, port.stderr) IN
    [byte |-> r.byte,
     port |-> getchar_flush([port EXCEPT !.rd = r.rd, !.stderr = r.errs])]

\* getchar, io.rs:11-29: flush, then read
getchar(input, port) ==
    LET f == getchar_flush(port)
        r == getchar_loop(input, f.rd, 0, f.stderr)
    IN  [byte |-> r.byte, port |-> [f EXCEPT !.rd = r.rd, !.stderr = r.errs]]

\* a plausible slip: the test is byte <= 128
putchar_le(port, byte) ==
    IF byte <= ASCII_LIMIT
    THEN [port EXCEPT !.stdout = Append(port.stdout, byte)]
    ELSE port

\* putchar, io.rs:34-38
putchar(port, byte) ==
    IF byte < ASCII_LIMIT
    THEN [port EXCEPT !.stdout = Append(port.stdout, byte)]
    ELSE port

(***************************************************************************)
(* The tape: [0_u8; STORAGE_SIZE], kept as the function of its nonzero     *)
(* cells (every other cell is 0).                                          *)
(***************************************************************************)
ZeroTape == [c \in {} |-> 0]

Cell(tape, p) == IF p \in DOMAIN tape THEN tape[p] ELSE 0

Store(tape, p, v) ==
    IF v = 0 THEN [c \in DOMAIN tape \ {p} |-> tape[c]]
    ELSE [c \in DOMAIN tape \cup {p} |-> IF c = p THEN v ELSE tape[c]]

\* u8::wrapping_add
wrapping_add(x, n) == (x + n) % U8_MOD

(***************************************************************************)
(* The pattern opcodes.  interpret.rs and jit.rs hold no arm for them;     *)
(* their effect is the one the instruction table gives.                    *)
(***************************************************************************)
\* the wrapped destination of an offset
pattern_target(data_ptr, d) == (data_ptr + d) % STORAGE_SIZE

\* tape[t] += cell for one offset
pattern_add(tape, data_ptr, d, v) ==
    Store(tape, pattern_target(data_ptr, d),
          wrapping_add(Cell(tape, pattern_target(data_ptr, d)), v))

pattern_effect(token, tape, data_ptr) ==
    LET v == Cell(tape, data_ptr) IN
    CASE token.op = "ClearCell" -> Store(tape, data_ptr, 0)
      [] token.op = "AddTo" ->
            Store(pattern_add(tape, data_ptr, token.a, v), data_ptr, 0)
      [] token.op = "AddToCopy" ->
            Store(pattern_add(pattern_add(tape, data_ptr, token.a, v),
                              data_ptr, token.b, v), data_ptr, 0)
      [] OTHER -> tape

IsPattern(token) == token.op \in {"ClearCell", "AddTo", "AddToCopy"}

(***************************************************************************)
(* The interpreter, interpret.rs:31-73.                                    *)
(***************************************************************************)
\* a plausible slip: the pointer is not wrapped
interpret_move_nowrap(data_ptr, n) == data_ptr + n

\* Token::Mov(n), interpret.rs:40-45
interpret_move(data_ptr, n) ==
    IF data_ptr + n >= STORAGE_SIZE THEN data_ptr + n - STORAGE_SIZE
    ELSE data_ptr + n

\* a plausible slip: the scan stops at the first CloseBr, nesting not counted
skip_loop_first(token_stream, ins_ptr, nested_loops) ==
    LET closes == {j \in (ins_ptr + 1)..(Len(token_stream) - 1) :
                      At(token_stream, j).op = "CloseBr"}
    IN  IF closes = {} THEN 0 - 1
        ELSE CHOOSE j \in closes : \A k \in closes : j <= k

\* the loop that skips a loop body, interpret.rs:50-58; the result is the
\* index of the matching CloseBr, or -1 when an index leaves the stream
RECURSIVE skip_loop(_, _, _)
skip_loop(token_stream, ins_ptr, nested_loops) ==
    IF At(token_stream, ins_ptr).op # "CloseBr" \/ nested_loops # 0
    THEN IF ins_ptr + 1 >= Len(token_stream) THEN 0 - 1
         ELSE LET t == At(token_stream, ins_ptr + 1) IN
              skip_loop(token_stream, ins_ptr + 1,
                        CASE t.op = "OpenBr" -> nested_loops + 1
                          [] t.op = "CloseBr" -> nested_loops - 1
                          [] OTHER -> nested_loops)
    ELSE ins_ptr

\* the machine state of one engine
Machine(ip, dp, tape, stack, prt, panicked) ==
    [ins_ptr |-> ip, data_ptr |-> dp, storage |-> tape, loop_stack |-> stack,
     port |-> prt, panicked |-> panicked]

\* a plausible slip: the loop is pushed before the cell is tested
interpret_open_push_always(token_stream, m) ==
    IF Cell(m.storage, m.data_ptr) = 0
    THEN LET close == skip_loop(token_stream, m.ins_ptr, 1) IN
         IF close < 0 THEN [m EXCEPT !.panicked = TRUE]
         ELSE [m EXCEPT !.ins_ptr = close,
                        !.loop_stack = Append(m.loop_stack, m.ins_ptr)]
    ELSE [m EXCEPT !.loop_stack = Append(m.loop_stack, m.ins_ptr)]

\* Token::OpenBr, interpret.rs:48-62
interpret_open(token_stream, m) ==
    IF Cell(m.storage, m.data_ptr) = 0
    THEN LET close == skip_loop(token_stream, m.ins_ptr, 1) IN
         IF close < 0 THEN [m EXCEPT !.panicked = TRUE]
         ELSE [m EXCEPT !.ins_ptr = close]
    ELSE [m EXCEPT !.loop_stack = Append(m.loop_stack, m.ins_ptr)]

\* a plausible slip: the loop is left whatever the cell holds
interpret_close_leave(m) ==
    [m EXCEPT !.loop_stack = IF m.loop_stack = <<>> THEN <<>> ELSE Pop(m.loop_stack)]

\* Token::CloseBr, interpret.rs:63-69
interpret_close(m) ==
    IF Cell(m.storage, m.data_ptr) # 0
    THEN IF m.loop_stack = <<>> THEN [m EXCEPT !.panicked = TRUE]
         ELSE [m EXCEPT !.ins_ptr = m.loop_stack[Len(m.loop_stack)]]
    ELSE [m EXCEPT !.loop_stack =
              IF m.loop_stack = <<>> THEN <<>> ELSE Pop(m.loop_stack)]

\* the match of one iteration of the while loop, interpret.rs:38-70
interpret_match(token_stream, input, m) ==
    LET token == At(token_stream, m.ins_ptr) IN
    CASE token.op = "Add" ->
            [m EXCEPT !.storage = Store(m.storage, m.data_ptr,
                          wrapping_add(Cell(m.storage, m.data_ptr), token.a))]
      [] token.op = "Move" ->
            [m EXCEPT !.data_ptr = interpret_move(m.data_ptr, token.a)]
      [] token.op = "Input" ->
            LET r == getchar(input, m.port) IN
            [m EXCEPT !.storage = Store(m.storage, m.data_ptr, r.byte),
                      !.port = r.port]
      [] token.op = "Output" ->
            [m EXCEPT !.port = putchar(m.port, Cell(m.storage, m.data_ptr))]
      [] token.op = "OpenBr" -> interpret_open(token_stream, m)
      [] token.op = "CloseBr" -> interpret_close(m)
      [] OTHER ->
            [m EXCEPT !.storage = pattern_effect(token, m.storage, m.data_ptr)]

\* one iteration: the match, then ins_ptr += 1 (interpret.rs:71)
interpret_step(token_stream, input, m) ==
    LET n == interpret_match(token_stream, input, m) IN
    IF n.panicked THEN n ELSE [n EXCEPT !.ins_ptr = n.ins_ptr + 1]

(***************************************************************************)
(* The JIT, jit.rs.  Emission builds basic blocks of IR; block ids count   *)
(* from 0 in creation order.  The IR of one token is kept as one           *)
(* instruction; a loop test is brif(zero -> a, nonzero -> b).              *)
(***************************************************************************)
Brif(after_block, inner_block) == Tok("brif", after_block, inner_block)

Return == Tok("return", 0, 0)

\* builder.ins(): append to the block switched to
Emit(j, inst) ==
    [j EXCEPT !.blocks[j.cur + 1] = Append(j.blocks[j.cur + 1], inst)]

\* jit.rs:77-81: the entry block is created, sealed, switched to
emit_prologue ==
    [blocks |-> << <<>> >>, cur |-> 0, stack |-> <<>>, seals |-> <<0>>,
     panicked |-> FALSE]

\* a plausible slip: the body block is sealed when it is switched to
emit_open_seal_early(j) ==
    LET inner_block == Len(j.blocks)
        after_block == Len(j.blocks) + 1
        k == Emit([j EXCEPT !.blocks = j.blocks \o << <<>>, <<>> >>],
                  Brif(after_block, inner_block))
    IN  [k EXCEPT !.cur = inner_block,
                  !.stack = Append(j.stack, <<inner_block, after_block>>),
                  !.seals = Append(j.seals, inner_block)]

\* Token::OpenBr, jit.rs:180-202
emit_open(j) ==
    LET inner_block == Len(j.blocks)
        after_block == Len(j.blocks) + 1
        k == Emit([j EXCEPT !.blocks = j.blocks \o << <<>>, <<>> >>],
                  Brif(after_block, inner_block))
    IN  [k EXCEPT !.cur = inner_block,
                  !.stack = Append(j.stack, <<inner_block, after_block>>)]

\* Token::CloseBr, jit.rs:203-225
emit_close(j) ==
    IF j.stack = <<>> THEN [j EXCEPT !.panicked = TRUE]
    ELSE LET inner_block == j.stack[Len(j.stack)][1]
             after_block == j.stack[Len(j.stack)][2]
             k == Emit(j, Brif(after_block, inner_block))
         IN  [k EXCEPT !.stack = Pop(j.stack),
                       !.seals = j.seals \o <<inner_block, after_block>>,
                       !.cur = after_block]

\* one iteration of the for loop, jit.rs:114-227
emit_token(j, token) ==
    CASE token.op = "OpenBr" -> emit_open(j)
      [] token.op = "CloseBr" -> emit_close(j)
      [] OTHER -> Emit(j, token)

\* a plausible slip: the comparison is SignedLessThanOrEqual
jit_move_le(ptr_val, n) ==
    LET ptr_plus == ptr_val + n
        ptr_wrapped == ptr_val + (n - STORAGE_SIZE)
    IN  IF ptr_plus <= STORAGE_SIZE THEN ptr_plus ELSE ptr_wrapped

\* the emitted Token::Mov(n), jit.rs:130-152: select(plus < SIZE, plus, wrapped)
jit_move(ptr_val, n) ==
    LET ptr_plus == ptr_val + n
        ptr_wrapped == ptr_val + (n - STORAGE_SIZE)
    IN  IF ptr_plus < STORAGE_SIZE THEN ptr_plus ELSE ptr_wrapped

\* the emitted loop test, jit.rs:194-195 and 216-217
jit_branch(inst, cell_value) == IF cell_value = 0 THEN inst.a ELSE inst.b

\* the routine's position, data pointer, memory and the port it calls
Routine(block, ofs, dp, memory, prt) ==
    [block |-> block, ofs |-> ofs, data_ptr |-> dp, storage |-> memory, port |-> prt]

\* one emitted instruction of the compiled routine
jit_exec(blocks, input, r) ==
    LET inst == At(At(blocks, r.block), r.ofs)
        next == [r EXCEPT !.ofs = r.ofs + 1]
    IN  CASE inst.op = "Add" ->
                [next EXCEPT !.storage = Store(r.storage, r.data_ptr,
                                 wrapping_add(Cell(r.storage, r.data_ptr), inst.a))]
          [] inst.op = "Move" ->
                [next EXCEPT !.data_ptr = jit_move(r.data_ptr, inst.a)]
          [] inst.op = "Input" ->
                LET g == getchar(input, r.port) IN
                [next EXCEPT !.storage = Store(r.storage, r.data_ptr, g.byte),
                             !.port = g.port]
          [] inst.op = "Output" ->
                [next EXCEPT !.port = putchar(r.port, Cell(r.storage, r.data_ptr))]
          [] inst.op = "brif" ->
                [r EXCEPT !.block = jit_branch(inst, Cell(r.storage, r.data_ptr)),
                          !.ofs = 0]
          [] OTHER ->
                [next EXCEPT !.storage = pattern_effect(inst, r.storage, r.data_ptr)]

(***************************************************************************)
(* The state.                                                              *)
(***************************************************************************)
VARIABLES
    src_text,       \* the text given to text_2_bf (a sequence of code points)
    bf_code,        \* the Result text_2_bf returns
    src,            \* the source text given to process_code (a sequence of characters)
    stdin,          \* the read results standard input holds before end-of-file
    limit,          \* the instruction budget of a run (0: none)
    pc,             \* the position of main: the pass or the engine at work
    tokens,         \* tokens_with_loc of process_code
    result,         \* the Result process_code returns
    token_stream,   \* the stream given to the engine at work
    ins_ptr,        \* interpret: index of the next instruction
    data_ptr,       \* interpret and the compiled routine: the data pointer
    storage,        \* the tape of the engine at work (storage / memory)
    loop_stack,     \* interpret: indices of the loops being iterated
    port,           \* the I/O port: rd, stdout, flushed, stderr
    steps,          \* instructions the run has executed (counted when limit > 0)
    finals,         \* how each finished run ended
    jit,            \* the emission state: blocks, cur, stack, seals, panicked
    emit_pos,       \* the JIT's for loop: tokens emitted so far
    jit_pc          \* the compiled routine: [block, ofs] of its next instruction

vars == <<src_text, bf_code, src, stdin, limit, pc, tokens, result, token_stream, ins_ptr, data_ptr,
          storage, loop_stack, port, steps, finals, jit, emit_pos, jit_pc>>

textVars == <<src_text, bf_code>>

frontVars == <<tokens, result>>

runVars == <<token_stream, ins_ptr, data_ptr, storage, loop_stack, port, steps>>

jitVars == <<jit, emit_pos, jit_pc>>

(***************************************************************************)
(* Initial states.                                                         *)
(***************************************************************************)
\* the eight commands, a line break and a comment character
Chars == {"+", "-", "<", ">", ",", ".", "[", "]", "\n", "x"}

ShortSources == UNION {[1..n -> Chars] : n \in 0..MaxSrcLen}

\* programs of the documentation and the tests, and variations of them
Programs ==
    { <<"+","+","[",">","+","+","<",",",".","-","]">>,
      <<"<","<","-","-","[","-","[",">","+","+","<",",",".","-","]","]">>,
      <<"[","[","[","+","+","]","]","]">>,
      <<"+","[","[","[","+","]","]","]","-",".">>,
      <<"+","+","[","-",">",">","+","<","<","]",">",">",".">>,
      <<"<","+","+","[","-",">",">","+",">","+","<","<","<","]">>,
      <<"-","[","[","[","-",">",">","+",">",">","+","<","<","<","<","]","]","]">>,
      <<"+","[","-",">",">","+","<","]">>,
      <<"+","[","-","-",">","+","<","]">>,
      <<"+","[","-",">","+",">","+","<","]">>,
      <<",","[",".",",","]">>,
      <<"x","\n","[","\n","]","]","[">>,
      <<"[","\n","x","[","]","\n","[">>,
      <<"+",">","<","-","[",".","]">>,
      <<"-",".","<",".",">",">",".">>,
      <<"[","[","]","]">>,
      <<"+","[",">","[","]","<","-","]">>,
      <<"[","\r","\n","x","]","]">>,
      <<"\r","[","\n","[","[","]">>,
      <<">","+","-",">",".">> }

Sources == ShortSources \cup Programs

\* a byte, a carriage return, an I/O error
ReadResults == {65, CR, 0 - 1}

Inputs == UNION {[1..n -> ReadResults] : n \in 0..MaxInput}

HasInput(code) == \E k \in 1..Len(code) : code[k] = ","

NoRun == [status |-> "none", stdout |-> <<>>, storage |-> ZeroTape,
          data_ptr |-> 0, rd |-> 0, stderr |-> 0]

NewPort == [rd |-> 0, stdout |-> <<>>, flushed |-> 0, flushed_rd |-> 0, stderr |-> 0]

NoJit == [blocks |-> <<>>, cur |-> 0, stack |-> <<>>, seals |-> <<>>,
          panicked |-> FALSE]

NoPc == [block |-> 0, ofs |-> 0]

\* no error, and the result before text_2_bf has run
NoError == [kind |-> "none", char |-> 0, line |-> 0, column |-> 0]

NoCode == [ok |-> FALSE, code |-> <<>>, error |-> NoError]

NoText ==
    /\ src_text = <<>>
    /\ bf_code = NoCode

InitRest ==
    /\ NoText
    /\ pc = "lex"
    /\ tokens = <<>>
    /\ result = Returned(<<>>)
    /\ token_stream = <<>>
    /\ ins_ptr = 0
    /\ data_ptr = 0
    /\ storage = ZeroTape
    /\ loop_stack = <<>>
    /\ port = NewPort
    /\ steps = 0
    /\ finals = [ref |-> NoRun, interpret |-> NoRun, jit |-> NoRun]
    /\ jit = NoJit
    /\ emit_pos = 0
    /\ jit_pc = NoPc

Init ==
    /\ src \in Sources
    /\ stdin \in (IF HasInput(src) THEN Inputs ELSE {<<>>})
    /\ limit = MaxSteps
    /\ InitRest

(***************************************************************************)
(* process_code, pass by pass (code.rs:120-162).                           *)
(***************************************************************************)
DoLex ==
    /\ pc = "lex"
    /\ tokens' = Lex(src)
    /\ pc' = "merge_adjacent"
    /\ UNCHANGED <<textVars, src, stdin, limit, result, runVars, finals, jitVars>>

DoMergeAdjacent ==
    /\ pc = "merge_adjacent"
    /\ tokens' = merge_adjacent(tokens)
    /\ pc' = "check_loops"
    /\ UNCHANGED <<textVars, src, stdin, limit, result, runVars, finals, jitVars>>

\* check_loops(&tokens_with_loc)?  -- an Err is returned at once
DoCheckLoops ==
    /\ pc = "check_loops"
    /\ LET checked == check_loops(tokens) IN
       /\ pc' = IF checked = Ok THEN "clear_cell" ELSE "error"
       /\ result' = IF checked = Ok THEN result ELSE Err(checked)
    /\ UNCHANGED <<textVars, src, stdin, limit, tokens, runVars, finals, jitVars>>

\* one pattern pass; a panic of the pass ends the program
Pass(at, r, then) ==
    /\ pc = at
    /\ tokens' = r.tokens
    /\ pc' = IF r.panicked THEN "panic" ELSE then
    /\ result' = IF r.panicked THEN Panic ELSE result
    /\ UNCHANGED <<textVars, src, stdin, limit, runVars, finals, jitVars>>

DoClearCell == Pass("clear_cell", clear_cell(tokens), "add_to")

DoAddTo == Pass("add_to", add_to(tokens), "add_to_copy")

DoAddToCopy == Pass("add_to_copy", add_to_copy(tokens), "calculate_jumps")

\* calculate_jumps, then Ok(tokens without locations)
DoCalculateJumps ==
    /\ pc = "calculate_jumps"
    /\ LET r == calculate_jumps(tokens) IN
       /\ tokens' = r.tokens
       /\ pc' = IF r.panicked THEN "panic" ELSE "returned"
       /\ result' = IF r.panicked THEN Panic ELSE Returned(StripLoc(r.tokens))
    /\ UNCHANGED <<textVars, src, stdin, limit, runVars, finals, jitVars>>

(***************************************************************************)
(* The runs.  The lexed program is interpreted first (the reference run),  *)
(* then the returned stream is interpreted, then compiled and run.         *)
(***************************************************************************)
\* the start of interpret, interpret.rs:32-35, on the given stream
StartRun(stream) ==
    /\ token_stream' = stream
    /\ ins_ptr' = 0
    /\ data_ptr' = 0
    /\ storage' = ZeroTape
    /\ loop_stack' = <<>>
    /\ port' = NewPort
    /\ steps' = 0

StartRef ==
    /\ pc = "returned"
    /\ StartRun(StripLoc(Lex(src)))
    /\ pc' = "ref"
    /\ UNCHANGED <<textVars, src, stdin, limit, frontVars, finals, jitVars>>

InBudget == limit = 0 \/ steps < limit

Halted == ins_ptr >= Len(token_stream)

\* one iteration of the interpreter's while loop
Interpret ==
    /\ pc \in {"ref", "interpret"}
    /\ ~Halted
    /\ InBudget
    /\ LET m == interpret_step(token_stream, stdin,
                    Machine(ins_ptr, data_ptr, storage, loop_stack, port, FALSE))
       IN  /\ ins_ptr' = m.ins_ptr
           /\ data_ptr' = m.data_ptr
           /\ storage' = m.storage
           /\ loop_stack' = m.loop_stack
           /\ port' = m.port
           /\ pc' = IF m.panicked THEN "panic" ELSE pc
    /\ steps' = IF limit = 0 THEN steps ELSE steps + 1
    /\ UNCHANGED <<textVars, src, stdin, limit, frontVars, token_stream, finals, jitVars>>

Final(status) ==
    [status |-> status, stdout |-> port.stdout, storage |-> storage,
     data_ptr |-> data_ptr, rd |-> port.rd, stderr |-> port.stderr]

\* interpret returns (or the budget of the run is spent); the next run starts
EndInterpret ==
    /\ pc \in {"ref", "interpret"}
    /\ Halted \/ ~InBudget
    /\ finals' = [finals EXCEPT ![pc] = Final(IF Halted THEN "halted" ELSE "cut")]
    /\ StartRun(result.tokens)
    /\ pc' = IF pc = "ref" THEN "interpret" ELSE "jit"
    /\ UNCHANGED <<textVars, src, stdin, limit, frontVars, jitVars>>

\* a plausible slip: the entry block is built before the lookup is tested
JitLookupLate ==
    /\ pc = "jit"
    /\ jit' = emit_prologue
    /\ \E supported \in BOOLEAN :
         IF supported
         THEN pc' = "jit_emit" /\ finals' = finals
         ELSE pc' = "done" /\ finals' = [finals EXCEPT !.jit = Final("unsupported")]
    /\ UNCHANGED <<textVars, src, stdin, limit, frontVars, runVars, emit_pos, jit_pc>>

\* jit.rs:51-54 and 77-81: the ISA lookup, then the entry block
JitLookup ==
    /\ pc = "jit"
    /\ \E supported \in BOOLEAN :
         IF supported
         THEN /\ pc' = "jit_emit"
              /\ jit' = emit_prologue
              /\ finals' = finals
         ELSE /\ pc' = "done"
              /\ jit' = jit
              /\ finals' = [finals EXCEPT !.jit = Final("unsupported")]
    /\ UNCHANGED <<textVars, src, stdin, limit, frontVars, runVars, emit_pos, jit_pc>>

\* one iteration of the emission loop
JitEmit ==
    /\ pc = "jit_emit"
    /\ emit_pos < Len(token_stream)
    /\ jit' = emit_token(jit, At(token_stream, emit_pos))
    /\ emit_pos' = emit_pos + 1
    /\ pc' = IF jit'.panicked THEN "panic" ELSE pc
    /\ UNCHANGED <<textVars, src, stdin, limit, frontVars, runVars, finals, jit_pc>>

\* jit.rs:230-262: return_, finalize, compile, call the routine
JitFinalize ==
    /\ pc = "jit_emit"
    /\ emit_pos >= Len(token_stream)
    /\ jit' = Emit(jit, Return)
    /\ jit_pc' = [block |-> 0, ofs |-> 0]
    /\ pc' = "jit_run"
    /\ UNCHANGED <<textVars, src, stdin, limit, frontVars, runVars, finals, emit_pos>>

Returning == At(At(jit.blocks, jit_pc.block), jit_pc.ofs).op = "return"

\* one emitted instruction of the compiled routine
JitRun ==
    /\ pc = "jit_run"
    /\ ~Returning
    /\ InBudget
    /\ LET r == jit_exec(jit.blocks, stdin,
                    Routine(jit_pc.block, jit_pc.ofs, data_ptr, storage, port))
       IN  /\ jit_pc' = [block |-> r.block, ofs |-> r.ofs]
           /\ data_ptr' = r.data_ptr
           /\ storage' = r.storage
           /\ port' = r.port
    /\ steps' = IF limit = 0 THEN steps ELSE steps + 1
    /\ UNCHANGED <<textVars, src, stdin, limit, pc, frontVars, token_stream, ins_ptr,
                   loop_stack, finals, jit, emit_pos>>

\* the routine returns and jit returns Ok(()) (or the budget is spent)
JitReturn ==
    /\ pc = "jit_run"
    /\ Returning \/ ~InBudget
    /\ finals' = [finals EXCEPT !.jit = Final(IF Returning THEN "halted" ELSE "cut")]
    /\ pc' = "done"
    /\ UNCHANGED <<textVars, src, stdin, limit, frontVars, runVars, jitVars>>

Next ==
    \/ DoLex
    \/ DoMergeAdjacent
    \/ DoCheckLoops
    \/ DoClearCell
    \/ DoAddTo
    \/ DoAddToCopy
    \/ DoCalculateJumps
    \/ StartRef
    \/ Interpret
    \/ EndInterpret
    \/ JitLookup
    \/ JitEmit
    \/ JitFinalize
    \/ JitRun
    \/ JitReturn

Spec == Init /\ [][Next]_vars

(***************************************************************************)
(* Pattern programs: a prefix that sets the pointer and the cells, then    *)
(* one loop of a recognized shape, wrapped in further loops.               *)
(***************************************************************************)
Rep(c, n) == [k \in 1..n |-> c]

\* n > 0: n times "+", n < 0: -n times "-"
Fill(n) == IF n >= 0 THEN Rep("+", n) ELSE Rep("-", 0 - n)

\* n > 0: n times ">", n < 0: -n times "<"
Shift(n) == IF n >= 0 THEN Rep(">", n) ELSE Rep("<", 0 - n)

RECURSIVE Nest(_, _)
Nest(body, depth) ==
    IF depth = 0 THEN body ELSE <<"[">> \o Nest(body, depth - 1) \o <<"]">>

\* where the pointer starts and what the neighbouring cells hold
PointerSetups ==
    { <<>>, <<"<">>, <<">", "-", "<">>, <<"<", "+", ">", ">", ">", "-", "<", "<">> }

\* the value of the current cell: lowest..MaxFill (a negative count wraps)
CellSetups(lowest) == {Fill(n) : n \in lowest..MaxFill}

Prefixes(lowest) == {a \o b : a \in PointerSetups, b \in CellSetups(lowest)}

Steps == ((0 - MaxDist)..MaxDist) \ {0}

ClearBodies == {Fill(n) : n \in ((0 - MaxFill)..MaxFill) \ {0}}

AddToBodies == {<<"-">> \o Shift(m) \o <<"+">> \o Shift(0 - m) : m \in Steps}

AddToCopyBody(a, b) ==
    <<"-">> \o Shift(a) \o <<"+">> \o Shift(b) \o <<"+">> \o Shift(0 - (a + b))

AddToCopyBodies ==
    UNION { {AddToCopyBody(a, b) : b \in {c \in Steps : a + c # 0}} : a \in Steps }

PatternSources(lowest, bodies) ==
    {a \o Nest(b, d) : a \in Prefixes(lowest), b \in bodies, d \in 1..MaxNest}

\* a byte cell that is to reach 0 by repeated addition does so within 256
\* iterations; the budget of a run holds that many of the longest loop body
\* several times over
ClearInit ==
    /\ src \in PatternSources(0 - 2, ClearBodies)
    /\ stdin = <<>>
    /\ limit = ClearBudget
    /\ InitRest

ClearSpec == ClearInit /\ [][Next]_vars

PatInit ==
    /\ src \in PatternSources(0, AddToBodies \cup AddToCopyBodies)
    /\ stdin = <<>>
    /\ limit = 0
    /\ InitRest

PatSpec == PatInit /\ [][Next]_vars

(***************************************************************************)
(* merge_adjacent on arbitrary located streams.                            *)
(***************************************************************************)
TokenPool ==
    {Add(0), Add(1), Add(U8_MOD - 1), Move(0), Move(1), Move(STORAGE_SIZE - 1),
     Input, OpenBr(0)}

\* the tokens of f, located one after the other on line 1
Stream(f, n) == [k \in 1..n |-> Loc(f[k], 1, k)]

MergeInit ==
    /\ NoText
    /\ src = <<>>
    /\ stdin = <<>>
    /\ limit = 0
    /\ pc = "merge_adjacent"
    /\ \E n \in 0..MaxStream : \E f \in [1..n -> TokenPool] : tokens = Stream(f, n)
    /\ result = Returned(<<>>)
    /\ token_stream = <<>>
    /\ ins_ptr = 0
    /\ data_ptr = 0
    /\ storage = ZeroTape
    /\ loop_stack = <<>>
    /\ port = NewPort
    /\ steps = 0
    /\ finals = [ref |-> NoRun, interpret |-> NoRun, jit |-> NoRun]
    /\ jit = NoJit
    /\ emit_pos = 0
    /\ jit_pc = NoPc

MergeSpec == MergeInit /\ [][DoMergeAdjacent]_vars

(***************************************************************************)
(* Properties.  Positions in the source text are computed here from the    *)
(* characters, not from the tokens.                                        *)
(***************************************************************************)
\* process_code returns Ok(stream)
HasReturned == pc = "returned"

\* check_loops has just run: process_code goes on, or returns the error
Validated == pc \in {"clear_cell", "error"}

\* both interpreter runs are just over
BothInterpreted == pc = "jit"

Count(code, k, c) == Cardinality({j \in 1..k : code[j] = c})

\* openers pending after the first k characters
Depth(code, k) == Count(code, k, "[") - Count(code, k, "]")

\* the positions of a "]" met while no "[" is pending, up to the first one
UnmatchedCloses(code) == {k \in 1..Len(code) : Depth(code, k) < 0}

\* the positions of the "[" never closed, when no "]" is unmatched
UnmatchedOpens(code) ==
    {k \in 1..Len(code) :
        code[k] = "[" /\ \A j \in k..Len(code) : Depth(code, j) >= Depth(code, k)}

Least(S) == CHOOSE k \in S : \A j \in S : k <= j

Greatest(S) == CHOOSE k \in S : \A j \in S : k >= j

\* 1-based line and column of position k of the text
LineOf(code, k) == 1 + Cardinality({j \in 1..(k - 1) : code[j] = "\n"})

ColOf(code, k) == k - Greatest({0} \cup {j \in 1..(k - 1) : code[j] = "\n"})

NoRuns == finals = [ref |-> NoRun, interpret |-> NoRun, jit |-> NoRun]

\* brackets of a token stream (0-based indices)
TokDepth(ts, i) ==
    Cardinality({j \in 0..i : At(ts, j).op = "OpenBr"})
      - Cardinality({j \in 0..i : At(ts, j).op = "CloseBr"})

\* the CloseBr that properly closes the OpenBr at index i
MatchingClose(ts, i) ==
    Least({j \in (i + 1)..(Len(ts) - 1) :
              At(ts, j).op = "CloseBr" /\ TokDepth(ts, j) = TokDepth(ts, i) - 1})

\* C1: when the interpreter and the compiled routine have both run the
\* returned stream on the same input, they have written the same bytes, read
\* the same input, left the same tape and data pointer and ended the same way.
C1_InterpreterEqualsJit ==
    (pc = "done" /\ finals.jit.status # "unsupported") =>
        /\ finals.jit.stdout = finals.interpret.stdout
        /\ finals.jit.storage = finals.interpret.storage
        /\ finals.jit.data_ptr = finals.interpret.data_ptr
        /\ finals.jit.rd = finals.interpret.rd
        /\ finals.jit.status = finals.interpret.status

\* both engines ran a loop that reads and writes, to the end
C1_Witness ==
    /\ pc = "done"
    /\ finals.jit.status = "halted"
    /\ finals.interpret.status = "halted"
    /\ finals.jit.stdout # <<>>
    /\ finals.jit.rd > 0
    /\ \E k \in 1..Len(result.tokens) : result.tokens[k].op = "OpenBr"

\* C5: in a returned stream every OpenBr(d) at index i has CloseBr(d) at
\* index i + d, every CloseBr(d) at index j has OpenBr(d) at index j - d, and
\* the pairs are the properly nested matching pairs.
C5_BracketSymmetry ==
    HasReturned =>
        LET ts == result.tokens IN
        \A i \in 0..(Len(ts) - 1) :
            /\ At(ts, i).op = "OpenBr" =>
                  LET d == At(ts, i).a IN
                  /\ i + d < Len(ts)
                  /\ At(ts, i + d) = CloseBr(d)
                  /\ MatchingClose(ts, i) = i + d
            /\ At(ts, i).op = "CloseBr" =>
                  LET d == At(ts, i).a IN
                  /\ i - d >= 0
                  /\ At(ts, i - d) = OpenBr(d)
                  /\ MatchingClose(ts, i - d) = i

\* a returned stream with a loop nested in a loop, the outer one not first
C5_Witness ==
    /\ pc = "returned"
    /\ \E i \in 1..(Len(result.tokens) - 1) : \E j \in (i + 1)..(Len(result.tokens) - 1) :
          /\ At(result.tokens, i).op = "OpenBr"
          /\ At(result.tokens, j).op = "OpenBr"
          /\ j < i + At(result.tokens, i).a
          /\ At(result.tokens, j).a > 1

\* what the engine at work is about to move the pointer by (0: no move)
MovingBy ==
    IF pc \in {"ref", "interpret"} /\ ~Halted /\ InBudget
    THEN IF At(token_stream, ins_ptr).op = "Move" THEN At(token_stream, ins_ptr).a
         ELSE 0
    ELSE IF pc = "jit_run" /\ ~Returning /\ InBudget
    THEN LET inst == At(At(jit.blocks, jit_pc.block), jit_pc.ofs) IN
         IF inst.op = "Move" THEN inst.a ELSE 0
    ELSE 0

\* C6: every step of the interpreter and of the compiled routine leaves the
\* data pointer in 0..STORAGE_SIZE-1 and touches no cell outside the tape; a
\* move wraps around both ends of the tape.
C6_PointerInRange ==
    [][ /\ data_ptr' \in 0..(STORAGE_SIZE - 1)
        /\ DOMAIN storage' \subseteq 0..(STORAGE_SIZE - 1)
        /\ MovingBy # 0 => data_ptr' = (data_ptr + MovingBy) % STORAGE_SIZE ]_vars

\* the compiled routine went left from cell 0, wrote there, and came back
C6_Witness ==
    /\ pc = "jit_run"
    /\ data_ptr = 0
    /\ Cell(storage, STORAGE_SIZE - 1) # 0
    /\ finals.interpret.storage = storage

\* C7: a returned stream holds no Add(0) and no Move(0).
C7_NoZeroTokens ==
    HasReturned =>
        \A k \in 1..Len(result.tokens) :
            result.tokens[k].op \in {"Add", "Move"} => result.tokens[k].a # 0

\* a cancelled pair of moves between a cancelling pair of adds
C7_Witness ==
    /\ pc = "returned"
    /\ \E k \in 1..(Len(src) - 3) :
          /\ SubSeq(src, k, k + 3) = <<"+", ">", "<", "-">>
          /\ \A j \in 1..(k - 1) : src[j] \notin {"+", "-", "<", ">"}
    /\ \A k \in 1..Len(result.tokens) : result.tokens[k].op \notin {"Add", "Move"}

\* C9: when a "]" is met with no "[" pending, process_code returns
\* UnmatchedCloseBr with the line and column of the first such "]", returns no
\* stream, and nothing is run.
C9_UnmatchedClose ==
    (Validated /\ UnmatchedCloses(src) # {}) =>
        /\ pc = "error"
        /\ result = [ok |-> FALSE, tokens |-> <<>>, panicked |-> FALSE,
                     error |-> [kind |-> "UnmatchedCloseBr",
                                row |-> LineOf(src, Least(UnmatchedCloses(src))),
                                col |-> ColOf(src, Least(UnmatchedCloses(src)))]]
        /\ NoRuns

\* the error is not on the first line nor in the first column, and an
\* unmatched "[" follows
C9_Witness ==
    /\ pc = "error"
    /\ result.error.kind = "UnmatchedCloseBr"
    /\ result.error.row > 1
    /\ result.error.col > 1
    /\ result.error.row # result.error.col
    /\ \E k \in 1..Len(src) : k > Least(UnmatchedCloses(src)) /\ src[k] = "["

\* C10: when no "]" is unmatched and some "[" is never closed, process_code
\* returns UnmatchedOpenBr with the line and column of the last "[" that is
\* never closed, returns no stream, and nothing is run.
C10_UnmatchedOpen ==
    (Validated /\ UnmatchedCloses(src) = {} /\ UnmatchedOpens(src) # {}) =>
        /\ pc = "error"
        /\ result = [ok |-> FALSE, tokens |-> <<>>, panicked |-> FALSE,
                     error |-> [kind |-> "UnmatchedOpenBr",
                                row |-> LineOf(src, Greatest(UnmatchedOpens(src))),
                                col |-> ColOf(src, Greatest(UnmatchedOpens(src)))]]
        /\ NoRuns

\* two openers are left, on different lines, after a closed pair or before it
C10_Witness ==
    /\ pc = "error"
    /\ result.error.kind = "UnmatchedOpenBr"
    /\ Cardinality(UnmatchedOpens(src)) >= 2
    /\ LineOf(src, Least(UnmatchedOpens(src))) # result.error.row
    /\ \E k \in 1..Len(src) : src[k] = "]"

(***************************************************************************)
(* Properties of the pattern programs.  The state in which the loop is     *)
(* entered is the one the interpreter reaches on the straight-line prefix. *)
(***************************************************************************)
FirstOpen(code) == Least({k \in 1..Len(code) : code[k] = "["})

RECURSIVE RunTokens(_, _, _)
RunTokens(ts, n, m) ==
    IF n = 0 THEN m ELSE RunTokens(ts, n - 1, interpret_step(ts, <<>>, m))

\* the machine when the loop is entered
Entry(code) ==
    LET ts == StripLoc(Lex(SubSeq(code, 1, FirstOpen(code) - 1))) IN
    RunTokens(ts, Len(ts), Machine(0, 0, ZeroTape, <<>>, NewPort, FALSE))

\* the innermost loop as the pattern passes receive it (0-based index of its
\* OpenBr in the merged stream)
Merged(code) == StripLoc(merge_adjacent(Lex(code)))

LoopAt(code) ==
    Greatest({i \in 0..(Len(Merged(code)) - 1) : At(Merged(code), i).op = "OpenBr"})

\* the number of tokens of that loop, brackets included
LoopLen(code) ==
    Least({j \in LoopAt(code)..(Len(Merged(code)) - 1) :
              At(Merged(code), j).op = "CloseBr"}) - LoopAt(code) + 1

\* the token the passes left in the place of the loops
Substitute == result.tokens[Len(result.tokens)]

AllCells(a, b) == DOMAIN a \cup DOMAIN b

\* the run of the source program and the run of the returned stream ended
\* with the same tape and pointer
SameRuns ==
    /\ finals.interpret.status = "halted"
    /\ finals.interpret.storage = finals.ref.storage
    /\ finals.interpret.data_ptr = finals.ref.data_ptr

\* C2: a loop [+], [-], [+k], [-k], nested in loops or not, terminates with the
\* current cell 0 and the rest of the tape and the pointer unchanged, as the
\* ClearCell put in its place does.
C2_ClearLoopClears ==
    BothInterpreted =>
        /\ Substitute = ClearCell
        /\ finals.ref.status = "halted"
        /\ finals.ref.storage = Store(Entry(src).storage, Entry(src).data_ptr, 0)
        /\ finals.ref.data_ptr = Entry(src).data_ptr
        /\ SameRuns

\* C3: the loop [- move(m1) + move(m2)] with m1 + m2 = 0 is replaced by
\* AddTo(m1); run from any entry state it ends with the cell at distance m1
\* increased by the current cell, the current cell 0, every other cell and the
\* pointer unchanged, as the run of the returned stream does.
C3_AddToLoop ==
    (BothInterpreted /\ LoopLen(src) = 6) =>
        LET e == Entry(src)
            v == Cell(e.storage, e.data_ptr)
            m1 == At(Merged(src), LoopAt(src) + 2).a
            target == (e.data_ptr + m1) % STORAGE_SIZE
            final == finals.ref
        IN  /\ Substitute = AddTo(m1)
            /\ final.status = "halted"
            /\ final.data_ptr = e.data_ptr
            /\ \A c \in AllCells(e.storage, final.storage) \cup {e.data_ptr, target} :
                  Cell(final.storage, c) =
                      IF c = e.data_ptr THEN 0
                      ELSE IF c = target THEN (Cell(e.storage, c) + v) % U8_MOD
                      ELSE Cell(e.storage, c)
            /\ SameRuns

\* the loop ran on a nonzero cell at the left end of the tape and the sum
\* wrapped around 255
C3_Witness ==
    /\ pc = "jit"
    /\ Substitute.op = "AddTo"
    /\ Cell(Entry(src).storage, Entry(src).data_ptr) = 2
    /\ \E c \in DOMAIN Entry(src).storage :
          /\ c # Entry(src).data_ptr
          /\ Entry(src).storage[c] = U8_MOD - 1
          /\ Cell(finals.ref.storage, c) = 1
    /\ finals.interpret.storage = finals.ref.storage

\* C4: the loop [- move(m1) + move(m2) + move(m3)] with m1 + m2 + m3 = 0 is
\* replaced by AddToCopy(m1, m1 + m2); run from any entry state it ends with
\* the cells at these two distances increased by the current cell, the current
\* cell 0, every other cell and the pointer unchanged, as the run of the
\* returned stream does.
C4_AddToCopyLoop ==
    (BothInterpreted /\ LoopLen(src) = 8) =>
        LET e == Entry(src)
            v == Cell(e.storage, e.data_ptr)
            m1 == At(Merged(src), LoopAt(src) + 2).a
            m2 == At(Merged(src), LoopAt(src) + 4).a
            first == (e.data_ptr + m1) % STORAGE_SIZE
            second == (e.data_ptr + m1 + m2) % STORAGE_SIZE
            final == finals.ref
        IN  /\ Substitute = AddToCopy(m1, (m1 + m2) % STORAGE_SIZE)
            /\ final.status = "halted"
            /\ final.data_ptr = e.data_ptr
            /\ \A c \in AllCells(e.storage, final.storage)
                          \cup {e.data_ptr, first, second} :
                  Cell(final.storage, c) =
                      IF c = e.data_ptr THEN 0
                      ELSE IF c \in {first, second}
                           THEN (Cell(e.storage, c) + v) % U8_MOD
                      ELSE Cell(e.storage, c)
            /\ SameRuns

\* the loop ran on a nonzero cell, one target to the left of it and one to the
\* right, one of the sums wrapping around 255
C4_Witness ==
    /\ pc = "jit"
    /\ Substitute.op = "AddToCopy"
    /\ Substitute.a > Substitute.b
    /\ Cell(Entry(src).storage, Entry(src).data_ptr) = 2
    /\ \E c \in DOMAIN Entry(src).storage :
          /\ c # Entry(src).data_ptr
          /\ Entry(src).storage[c] = U8_MOD - 1
          /\ Cell(finals.ref.storage, c) = 1
    /\ \E c \in DOMAIN finals.ref.storage : finals.ref.storage[c] = 2
    /\ finals.interpret.storage = finals.ref.storage

\* C8: merge_adjacent applied to the stream merge_adjacent returned gives
\* that stream again, tokens and locations.
C8_MergeIdempotent ==
    pc = "check_loops" => merge_adjacent(tokens) = tokens

\* adds were merged into one: Add(2) is no token of the streams given
C8_Witness ==
    /\ pc = "check_loops"
    /\ tokens = <<Loc(Add(2), 1, 1)>>

(***************************************************************************)
(* What process_code is to return, stated on the lexed opcodes without     *)
(* the passes: merging as a rewriting to normal form, the three loop       *)
(* shapes, and the distance of each bracket to its match.                  *)
(***************************************************************************)
SameKind(x, y) == x.op = y.op /\ x.op \in {"Add", "Move"}

Sum(x, y) ==
    IF x.op = "Add" THEN Add((x.a + y.a) % U8_MOD)
    ELSE Move((x.a + y.a) % STORAGE_SIZE)

\* the first two neighbours of one kind become their sum, or nothing when the
\* sum is 0, until no two neighbours are of one kind
RECURSIVE Normalize(_)
Normalize(ts) ==
    LET pairs == {k \in 1..(Len(ts) - 1) : SameKind(ts[k], ts[k + 1])} IN
    IF pairs = {} THEN ts
    ELSE LET k == Least(pairs)
             sum == Sum(ts[k], ts[k + 1])
         IN  Normalize(SubSeq(ts, 1, k - 1)
                         \o (IF sum.a = 0 THEN <<>> ELSE <<sum>>)
                         \o SubSeq(ts, k + 2, Len(ts)))

Ops(ts, i, ops) ==
    /\ i + Len(ops) <= Len(ts)
    /\ \A k \in 1..Len(ops) : At(ts, i + k - 1).op = ops[k]

ClearShape(ts, i) == Ops(ts, i, <<"OpenBr", "Add", "CloseBr">>)

AddToShape(ts, i) ==
    /\ Ops(ts, i, <<"OpenBr", "Add", "Move", "Add", "Move", "CloseBr">>)
    /\ At(ts, i + 1).a = U8_MOD - 1
    /\ At(ts, i + 3).a = 1
    /\ (At(ts, i + 2).a + At(ts, i + 4).a) % STORAGE_SIZE = 0

AddToCopyShape(ts, i) ==
    /\ Ops(ts, i, <<"OpenBr", "Add", "Move", "Add", "Move", "Add", "Move", "CloseBr">>)
    /\ At(ts, i + 1).a = U8_MOD - 1
    /\ At(ts, i + 3).a = 1
    /\ At(ts, i + 5).a = 1
    /\ (At(ts, i + 2).a + At(ts, i + 4).a + At(ts, i + 6).a) % STORAGE_SIZE = 0

NoShapes(ts) ==
    \A i \in 0..(Len(ts) - 1) :
        ~ClearShape(ts, i) /\ ~AddToShape(ts, i) /\ ~AddToCopyShape(ts, i)

\* the OpenBr that the CloseBr at index j properly closes
MatchingOpen(ts, j) ==
    Greatest({i \in 0..(j - 1) :
                 At(ts, i).op = "OpenBr" /\ TokDepth(ts, i) = TokDepth(ts, j) + 1})

WithJumps(ts) ==
    [k \in 1..Len(ts) |->
        CASE ts[k].op = "OpenBr" -> OpenBr(MatchingClose(ts, k - 1) - (k - 1))
          [] ts[k].op = "CloseBr" -> CloseBr((k - 1) - MatchingOpen(ts, k - 1))
          [] OTHER -> ts[k]]

Text11 == <<"+", "+", "[", ">", "+", "+", "<", ",", ".", "-", "]">>

Text16 ==
    <<"<", "<", "-", "-", "[", "-", "[", ">", "+", "+", "<", ",", ".", "-", "]", "]">>

\* C11: for a balanced source with none of the three loop shapes process_code
\* returns the lexed opcodes in source order, neighbouring Adds and Moves
\* merged, each bracket with the distance to its match; ++[>++<,.-] gives
\* [Add(2), OpenBr(7), Move(1), Add(2), Move(TAPE-1), Input, Output, Add(255),
\* CloseBr(7)].
C11_PlainStream ==
    /\ (pc \in {"returned", "panic"} /\ NoShapes(Normalize(StripLoc(Lex(src))))) =>
          /\ pc = "returned"
          /\ result.tokens = WithJumps(Normalize(StripLoc(Lex(src))))
    /\ (pc = "returned" /\ src = Text11) =>
          result.tokens =
              <<Add(2), OpenBr(7), Move(1), Add(2), Move(STORAGE_SIZE - 1), Input,
                Output, Add(U8_MOD - 1), CloseBr(7)>>

\* the second example of the documentation is returned as documented
C11_Witness ==
    /\ pc = "returned"
    /\ src = Text16
    /\ NoShapes(Normalize(StripLoc(Lex(src))))
    /\ result.tokens =
          <<Move(STORAGE_SIZE - 2), Add(254), OpenBr(10), Add(U8_MOD - 1), OpenBr(7),
            Move(1), Add(2), Move(STORAGE_SIZE - 1), Input, Output, Add(U8_MOD - 1),
            CloseBr(7), CloseBr(10)>>

(***************************************************************************)
(* Nests: one loop of a recognized shape inside further loops that hold    *)
(* nothing else, between opcodes that come before and after.  Only         *)
(* process_code runs.                                                      *)
(***************************************************************************)
\* what comes before and after the nest
Contexts ==
    { << <<>>, <<>> >>,
      << <<"+">>, <<"-">> >>,
      << <<".", "\n", ">">>, <<",">> >>,
      << <<"[", ",">>, <<".", "]">> >>,
      << <<"x", "[">>, <<"+", "]", "<">> >> }

Wrapped(n) == (n + STORAGE_SIZE) % STORAGE_SIZE

\* the text of the innermost loop's body and the opcode it stands for
Patterns ==
    {[text |-> b, op |-> ClearCell] : b \in ClearBodies}
      \cup {[text |-> <<"-">> \o Shift(m) \o <<"+">> \o Shift(0 - m),
             op |-> AddTo(Wrapped(m))] : m \in Steps}
      \cup UNION { {[text |-> AddToCopyBody(a, b),
                     op |-> AddToCopy(Wrapped(a), Wrapped(a + b))] :
                        b \in {c \in Steps : a + c # 0}} : a \in Steps }

NestCases ==
    {[context |-> c, pattern |-> p, depth |-> d] :
        c \in Contexts, p \in Patterns, d \in 1..(MaxNest + 1)}

NestSource(c) == c.context[1] \o Nest(c.pattern.text, c.depth) \o c.context[2]

NestInit ==
    /\ src \in {NestSource(c) : c \in NestCases}
    /\ stdin = <<>>
    /\ limit = MaxSteps
    /\ InitRest

NestNext ==
    \/ DoLex
    \/ DoMergeAdjacent
    \/ DoCheckLoops
    \/ DoClearCell
    \/ DoAddTo
    \/ DoAddToCopy
    \/ DoCalculateJumps

NestSpec == NestInit /\ [][NestNext]_vars

\* the stream to return: the opcodes before, the one opcode, the opcodes after
NestStream(c) ==
    WithJumps(StripLoc(Lex(c.context[1])) \o <<c.pattern.op>>
                \o StripLoc(Lex(c.context[2])))

\* the index (from 1) of the opcode in the stream
NestIndex(c) == Len(Lex(c.context[1])) + 1

\* the position of the outermost "[" of the nest in the text
NestOpen(c) == Len(c.context[1]) + 1

\* C12: a loop of one of the three shapes, alone in any number of loops, is
\* replaced with all these loops by the one opcode, which takes the location
\* of the outermost "["; the opcodes before and after the nest stay as they are.
C12_NestReplaced ==
    pc \in {"returned", "panic"} =>
        \A c \in NestCases :
            src = NestSource(c) =>
                /\ pc = "returned"
                /\ result.tokens = NestStream(c)
                /\ StripLoc(tokens) = NestStream(c)
                /\ tokens[NestIndex(c)].row = LineOf(src, NestOpen(c))
                /\ tokens[NestIndex(c)].col = ColOf(src, NestOpen(c))

\* two copies were made by a loop inside two further loops, on the second
\* line, with opcodes before and after
C12_Witness ==
    /\ pc = "returned"
    /\ \E c \in NestCases :
          /\ src = NestSource(c)
          /\ c.depth = 3
          /\ c.pattern.op.op = "AddToCopy"
          /\ tokens[NestIndex(c)].tok = c.pattern.op
          /\ tokens[NestIndex(c)].row = 2
          /\ tokens[NestIndex(c)].col = 2
          /\ Len(result.tokens) = 4

(***************************************************************************)
(* The documented program ++[>++<,.-] run by the interpreter as main runs  *)
(* it (main.rs:88-95), for EchoBudget instructions.                        *)
(***************************************************************************)
EchoInputs == {<<65>>, <<65, 66>>, <<CR, 65>>, <<>>}

EchoInit ==
    /\ src = Text11
    /\ stdin \in EchoInputs
    /\ limit = EchoBudget
    /\ InitRest

\* interpret(token_stream) on the stream process_code returned
StartInterpret ==
    /\ pc = "returned"
    /\ StartRun(result.tokens)
    /\ pc' = "interpret"
    /\ UNCHANGED <<textVars, src, stdin, limit, frontVars, finals, jitVars>>

InterpretNext ==
    \/ DoLex
    \/ DoMergeAdjacent
    \/ DoCheckLoops
    \/ DoClearCell
    \/ DoAddTo
    \/ DoAddToCopy
    \/ DoCalculateJumps
    \/ StartInterpret
    \/ Interpret

EchoSpec == EchoInit /\ [][InterpretNext]_vars

\* C13 as claimed: with the one byte A on standard input the run of
\* ++[>++<,.-] writes A and then terminates (after two iterations of the
\* loop, which take 18 instructions).
C13_EchoTerminates ==
    (pc = "interpret" /\ stdin = <<65>> /\ ~InBudget) =>
        (Halted /\ port.stdout[1] = 65)

\* C13 as amended: with the one byte A on standard input the run of
\* ++[>++<,.-] writes A first and zero bytes after it, and never terminates:
\* at every CloseBr the cell holds 64 or 255.
C13_EchoGoesOn ==
    (pc = "interpret" /\ stdin = <<65>>) =>
        /\ ~Halted
        /\ steps >= 7 => Len(port.stdout) >= 1
        /\ \A k \in 1..Len(port.stdout) : port.stdout[k] = IF k = 1 THEN 65 ELSE 0
        /\ At(token_stream, ins_ptr).op = "CloseBr" =>
              Cell(storage, data_ptr) \in {64, U8_MOD - 1}

\* A was written, then end-of-file was read and echoed as a zero byte twice
C13_Witness ==
    /\ pc = "interpret"
    /\ stdin = <<65>>
    /\ port.stdout = <<65, 0, 0>>
    /\ At(token_stream, ins_ptr).op = "CloseBr"

(***************************************************************************)
(* Properties of the byte I/O port.                                        *)
(***************************************************************************)
\* the opcode the engine at work is about to execute ("none": no step left)
OpAtHand ==
    IF pc \in {"ref", "interpret"} /\ ~Halted /\ InBudget
    THEN At(token_stream, ins_ptr).op
    ELSE IF pc = "jit_run" /\ ~Returning /\ InBudget
    THEN At(At(jit.blocks, jit_pc.block), jit_pc.ofs).op
    ELSE "none"

\* C14: when an Input instruction reads standard input, every byte written
\* before it has been flushed, and the flush was made before the read consumed
\* anything.
C14_FlushBeforeRead ==
    [][ OpAtHand = "Input" =>
            /\ port'.stdout = port.stdout
            /\ port'.flushed = Len(port.stdout)
            /\ port'.flushed_rd = port.rd ]_vars

\* the compiled routine wrote a byte and then read one
C14_Witness ==
    /\ pc = "jit_run"
    /\ port.flushed >= 1
    /\ port.flushed = Len(port.stdout)
    /\ port.rd = port.flushed_rd + 1

(***************************************************************************)
(* Programs that read and write, run by the interpreter on every short     *)
(* sequence of read results: bytes on both sides of 127/128, carriage      *)
(* returns, I/O errors.                                                    *)
(***************************************************************************)
IoResults == {65, CR, ASCII_LIMIT - 1, ASCII_LIMIT, 0 - 1}

IoPrograms ==
    { <<",", ".", ",", ".", ",", ".", ",", ".">>,
      <<".", ",", ",", ".", "-", ".">>,
      <<",", "[", ".", ",", "]">>,
      <<",", "+", ".", ">", ",", ".">> }

IoInit ==
    /\ src \in IoPrograms
    /\ \E n \in 0..MaxRead : stdin \in [1..n -> IoResults]
    /\ limit = MaxSteps
    /\ InitRest

IoSpec == IoInit /\ [][InterpretNext]_vars

\* the read results from position rd (from 0) on that a read passes over:
\* the carriage returns before the first other result
RECURSIVE Skipped(_, _)
Skipped(input, rd) ==
    IF rd < Len(input) /\ At(input, rd) = CR THEN 1 + Skipped(input, rd + 1) ELSE 0

\* the position of the result the read ends on (Len(input): end-of-file)
EndsOn(input, rd) == rd + Skipped(input, rd)

AtEof(input, rd) == EndsOn(input, rd) >= Len(input)

\* the read ends on an I/O error
OnError(input, rd) == ~AtEof(input, rd) /\ At(input, EndsOn(input, rd)) < 0

\* C15: a read never returns a carriage return; it passes over every carriage
\* return and returns the first other byte as read, or 0 at end-of-file, where
\* every later read returns 0 too.
C15_ReadSkipsCr ==
    [][ (OpAtHand = "Input" /\ ~OnError(stdin, port.rd)) =>
            LET byte == Cell(storage', data_ptr) IN
            /\ byte # CR
            /\ IF AtEof(stdin, port.rd)
               THEN byte = 0 /\ port'.rd = Len(stdin)
               ELSE /\ byte = At(stdin, EndsOn(stdin, port.rd))
                    /\ port'.rd = EndsOn(stdin, port.rd) + 1
            /\ port'.stderr = port.stderr ]_vars

\* a read passed over a carriage return and met end-of-file, and the read
\* after it returned 0 again
C15_Witness ==
    /\ pc = "interpret"
    /\ Len(stdin) >= 2
    /\ stdin[Len(stdin)] = CR
    /\ stdin[1] = 65
    /\ port.rd = Len(stdin)
    /\ port.stdout = <<65, 0, 0>>

\* C16: a read that fails with an I/O error reports it on standard error and
\* returns 0, also when carriage returns were passed over before the failure.
C16_ErrorReadsZero ==
    [][ (OpAtHand = "Input" /\ OnError(stdin, port.rd)) =>
            /\ Cell(storage', data_ptr) = 0
            /\ port'.stderr = port.stderr + 1
            /\ port'.rd = EndsOn(stdin, port.rd) + 1 ]_vars

\* C17: an Output instruction appends the cell's byte to standard output when
\* it is at most 127 and writes nothing when it is 128 or more; no other
\* instruction changes standard output.
C17_WriteAsciiOnly ==
    [][ /\ OpAtHand = "Output" =>
              port'.stdout =
                  IF Cell(storage, data_ptr) <= 127
                  THEN Append(port.stdout, Cell(storage, data_ptr))
                  ELSE port.stdout
        /\ OpAtHand \notin {"Output", "none"} => port'.stdout = port.stdout ]_vars

\* 127 and the zero byte were written, 128 was not
C17_Witness ==
    /\ pc = "interpret"
    /\ Halted
    /\ stdin = <<ASCII_LIMIT - 1, ASCII_LIMIT>>
    /\ src[1] = ","
    /\ port.stdout = <<ASCII_LIMIT - 1, 0, 0>>

\* C18: when the host ISA is not supported jit returns UnsupportedPlatformJIT
\* with no code emitted, no instruction run and no byte read or written; it
\* returns nothing else but Ok, and that only when the compiled routine has
\* returned (or the budget of the run is spent).
C18_UnsupportedIsa ==
    pc = "done" =>
        /\ finals.jit.status \in {"unsupported", "halted", "cut"}
        /\ finals.jit.status = "unsupported" =>
              /\ jit = NoJit
              /\ emit_pos = 0
              /\ jit_pc = NoPc
              /\ steps = 0
              /\ port = NewPort
              /\ storage = ZeroTape
              /\ data_ptr = 0
              /\ finals.jit = [NoRun EXCEPT !.status = "unsupported"]
        /\ finals.jit.status = "halted" =>
              /\ emit_pos = Len(token_stream)
              /\ Returning
        /\ finals.jit.status = "cut" => ~InBudget

\* the lookup failed for a program that the interpreter ran with output
C18_Witness ==
    /\ pc = "done"
    /\ finals.jit.status = "unsupported"
    /\ finals.interpret.status = "halted"
    /\ finals.interpret.stdout # <<>>
    /\ finals.interpret.rd > 0

\* the eight significant characters and the opcode each stands for
Significant == {"+", "-", ">", "<", ",", ".", "[", "]"}

OpcodeOf(c) ==
    CASE c = "+" -> Add(1)
      [] c = "-" -> Add(255)
      [] c = ">" -> Move(1)
      [] c = "<" -> Move(STORAGE_SIZE - 1)
      [] c = "," -> Input
      [] c = "." -> Output
      [] c = "[" -> OpenBr(0)
      [] c = "]" -> CloseBr(0)

\* the position in the text of the n-th significant character
SignificantAt(code, n) ==
    CHOOSE k \in 1..Len(code) :
        /\ code[k] \in Significant
        /\ Cardinality({j \in 1..k : code[j] \in Significant}) = n

Lexed == pc = "merge_adjacent"

\* C19: the lexer emits one opcode per significant character, in source
\* order and by the fixed mapping, nothing for any other character, each
\* opcode with its 1-based line and 1-based column, and it never fails.
C19_LexerOnePerCharacter ==
    Lexed =>
        /\ result.error = Ok /\ ~result.panicked
        /\ Len(tokens) = Cardinality({k \in 1..Len(src) : src[k] \in Significant})
        /\ \A n \in 1..Len(tokens) :
              LET k == SignificantAt(src, n)
              IN  tokens[n] = Loc(OpcodeOf(src[k]), LineOf(src, k), ColOf(src, k))

\* a text with another character and an opcode past the first line and column
C19_Witness ==
    /\ Lexed
    /\ Len(tokens) < Len(src)
    /\ \E n \in 1..Len(tokens) : tokens[n].row >= 2 /\ tokens[n].col >= 2
    /\ \E k \in 1..Len(src) : src[k] = "\r"

\* C20: while the interpreter runs a finalized stream, ins_ptr stays within
\* 0..length(stream); a forward jump at an OpenBr lands on the matching
\* CloseBr and a backward jump at a CloseBr on the matching OpenBr, after
\* which ins_ptr advances by one; every other instruction advances ins_ptr by
\* one; and the run halts exactly when ins_ptr = length(stream).
C20_InsPtrInRange ==
    [][pc = "interpret" =>
         /\ 0 <= ins_ptr /\ ins_ptr <= Len(token_stream)
         /\ pc' # "panic"
         /\ pc' = "interpret" =>
               /\ ins_ptr < Len(token_stream)
               /\ LET op == At(token_stream, ins_ptr).op
                      cell == Cell(storage, data_ptr)
                  IN  ins_ptr' =
                        IF op = "OpenBr" /\ cell = 0
                        THEN MatchingClose(token_stream, ins_ptr) + 1
                        ELSE IF op = "CloseBr" /\ cell # 0
                        THEN MatchingOpen(token_stream, ins_ptr) + 1
                        ELSE ins_ptr + 1
         /\ pc' = "jit" =>
               (finals'.interpret.status = "halted"
                    <=> ins_ptr = Len(token_stream))
         /\ ins_ptr = Len(token_stream) => pc' = "jit"]_vars

\* a backward jump has been taken into a loop nested in another
C20_Witness ==
    /\ pc = "interpret"
    /\ Len(loop_stack) = 2
    /\ ins_ptr = loop_stack[2] + 1
    /\ steps > ins_ptr
    /\ At(token_stream, loop_stack[2]).op = "OpenBr"

\* a forward jump has been taken over a loop that holds another
C20_WitnessForward ==
    /\ pc = "interpret"
    /\ steps = 1
    /\ ins_ptr > 2
    /\ At(token_stream, 0).op = "OpenBr"
    /\ At(token_stream, 1).op = "OpenBr"

(***************************************************************************)
(* The text encoder, text.rs.  A text is a sequence of code points; the    *)
(* program it yields is a sequence of characters.                          *)
(***************************************************************************)
IsAscii(c) == c < ASCII_LIMIT

LF == 10

\* Error::NonASCIIChar(char, line, column), error.rs
NonASCIIChar(c, line, column) ==
    [ok |-> FALSE, bytes |-> <<>>,
     error |-> [kind |-> "NonASCIIChar", char |-> c, line |-> line, column |-> column]]

OkBytes(bytes) == [ok |-> TRUE, bytes |-> bytes, error |-> NoError]

\* a plausible slip: the column also counts carriage returns
text_2_bytes_count_cr(text, k, line, column, bytes) ==
    LET cut == {j \in k..Len(text) : ~IsAscii(text[j])}
        stop == IF cut = {} THEN Len(text) + 1
                ELSE CHOOSE j \in cut : \A i \in cut : j <= i
        seen == [j \in 1..(stop - 1) |-> text[j]]
        feeds == {j \in 1..(stop - 1) : seen[j] = LF}
        last == IF feeds = {} THEN 0 ELSE CHOOSE j \in feeds : \A i \in feeds : j >= i
    IN  IF cut = {}
        THEN OkBytes(SelectSeq(seen, LAMBDA c : c # CR))
        ELSE NonASCIIChar(text[stop], 1 + Cardinality(feeds), stop - last)

\* the loop of text_2_bytes, text.rs:68-82, from character k on
RECURSIVE text_2_bytes_loop(_, _, _, _, _)
text_2_bytes_loop(text, k, line, column, bytes) ==
    IF k > Len(text) THEN OkBytes(bytes)
    ELSE LET c == text[k] IN
         IF IsAscii(c)
         THEN IF c # CR
              THEN IF c = LF
                   THEN text_2_bytes_loop(text, k + 1, line + 1, 1, Append(bytes, c))
                   ELSE text_2_bytes_loop(text, k + 1, line, column + 1, Append(bytes, c))
              ELSE text_2_bytes_loop(text, k + 1, line, column, bytes)
         ELSE NonASCIIChar(c, line, column)

\* text.rs:63-85
text_2_bytes(text) == text_2_bytes_loop(text, 1, 1, 1, <<>>)

saturating_add(a, b) == IF a + b > U8_MOD - 1 THEN U8_MOD - 1 ELSE a + b

saturating_sub(a, b) == IF a < b THEN 0 ELSE a - b

NoFactors == <<U8_MOD - 1, U8_MOD - 1>>

PairSum(pair) == pair[1] + pair[2]

\* one iteration of the inner loop, text.rs:183-193; s holds the table and j
factor_pair(s, i) ==
    LET mul == i * s.j IN
    [work |-> IF i + s.j < saturating_add(s.work[mul][1], s.work[mul][2])
              THEN [s.work EXCEPT ![mul] = <<i, s.j>>]
              ELSE s.work,
     j |-> s.j + 1]

\* count iterations of the inner loop, text.rs:182-194: it ends at
\* j = u8::MAX or at the first product above u8::MAX
RECURSIVE factor_pairs_row(_, _, _)
factor_pairs_row(s, i, count) ==
    IF count <= 0 \/ s.j >= U8_MOD - 1 \/ i * s.j > U8_MOD - 1 THEN s
    ELSE IF count = 1 THEN factor_pair(s, i)
    ELSE factor_pairs_row(factor_pairs_row(s, i, count \div 2), i,
                          count - (count \div 2))

\* one iteration of the outer loop, text.rs:181-195; s holds the table and i
factor_pairs_once(s) ==
    [work |-> factor_pairs_row([work |-> s.work, j |-> s.i], s.i, U8_MOD).work,
     i |-> s.i + 1]

\* count iterations of the outer loop, which ends at i = u8::MAX
RECURSIVE factor_pairs(_, _)
factor_pairs(s, count) ==
    IF count <= 0 \/ s.i >= U8_MOD - 1 THEN s
    ELSE IF count = 1 THEN factor_pairs_once(s)
    ELSE factor_pairs(factor_pairs(s, count \div 2), count - (count \div 2))

FactorEntry(n, pair) == [n |-> n, pair |-> pair]

Remove(s, i) == SubSeq(s, 1, i) \o SubSeq(s, i + 2, Len(s))

\* text.rs:198: the numbers above 10 for which a pair was found, in order
factor_retain(work) ==
    SelectSeq([k \in 1..U8_MOD |-> FactorEntry(k - 1, work[k - 1])],
              LAMBDA e : e.pair # NoFactors /\ e.n > 10)

\* one iteration of the while loop of text.rs:204-210; i is zero-based
prune_up_once(s) ==
    IF PairSum(At(s.table, s.i).pair)
          >= PairSum(At(s.table, s.i - 1).pair)
                 + (At(s.table, s.i).n - At(s.table, s.i - 1).n)
    THEN [s EXCEPT !.table = Remove(s.table, s.i)]
    ELSE [s EXCEPT !.i = s.i + 1]

\* count iterations of that loop, which ends at i = len
RECURSIVE prune_up(_, _)
prune_up(s, count) ==
    IF count <= 0 \/ s.i >= Len(s.table) THEN s
    ELSE IF count = 1 THEN prune_up_once(s)
    ELSE prune_up(prune_up(s, count \div 2), count - (count \div 2))

\* one iteration of the loop of text.rs:215-219; i runs down
prune_down_once(s) ==
    [table |-> IF PairSum(At(s.table, s.i).pair)
                     >= PairSum(At(s.table, s.i + 1).pair)
                            + (At(s.table, s.i + 1).n - At(s.table, s.i).n)
               THEN Remove(s.table, s.i)
               ELSE s.table,
     i |-> s.i - 1]

\* count iterations of that loop, which ends below i = 0
RECURSIVE prune_down(_, _)
prune_down(s, count) ==
    IF count <= 0 \/ s.i < 0 THEN s
    ELSE IF count = 1 THEN prune_down_once(s)
    ELSE prune_down(prune_down(s, count \div 2), count - (count \div 2))

\* text.rs:239-242
RECURSIVE closest(_, _, _)
closest(keys, low, high) ==
    IF low \notin keys /\ high \notin keys
    THEN closest(keys, saturating_sub(low, 1), saturating_add(high, 1))
    ELSE <<low, high>>

as_i8(d) == ((d + 128) % U8_MOD) - 128

\* text.rs:170-271: number -> <<f1, f2, diff>>, or <<>> for None
factor_table ==
    LET work == factor_pairs([work |-> [n \in 0..(U8_MOD - 1) |-> NoFactors], i |-> 2],
                             U8_MOD).work
        kept == factor_retain(work)
        up == prune_up([table |-> kept, i |-> 1], U8_MOD).table
        table == prune_down([table |-> up, i |-> Len(up) - 2], U8_MOD).table
        keys == {table[k].n : k \in 1..Len(table)}
        map == [n \in keys |-> (CHOOSE k \in 1..Len(table) : table[k].n = n)]
        pair(n) == table[map[n]].pair
    IN  [i \in 0..(U8_MOD - 1) |->
            IF i < 11 THEN <<>>
            ELSE LET lh == closest(keys, i, i)
                     low == lh[1]
                     high == lh[2]
                     factors ==
                         IF low \in keys
                         THEN IF high \in keys
                              THEN IF PairSum(pair(low)) < PairSum(pair(high))
                                   THEN pair(low) ELSE pair(high)
                              ELSE pair(low)
                         ELSE pair(high)
                 IN  <<factors[1], factors[2], as_i8(i - factors[1] * factors[2])>>]

Abs(d) == IF d < 0 THEN 0 - d ELSE d

\* a plausible slip: the correction of a product is left out
store_byte_no_diff(fact_table, byte) ==
    IF fact_table[byte] # <<>> /\ byte > 10
    THEN <<">">> \o Rep("+", fact_table[byte][1]) \o <<"[", "<">>
            \o Rep("+", fact_table[byte][2]) \o <<">", "-", "]">>
    ELSE Rep("+", byte) \o <<">">>

\* the body of the loop of store_bf_bytes, text.rs:99-132
store_byte(fact_table, byte) ==
    IF fact_table[byte] # <<>>
    THEN LET f1 == fact_table[byte][1]
             f2 == fact_table[byte][2]
             diff == fact_table[byte][3]
         IN  IF byte <= 10
             THEN Rep("+", byte) \o <<">">>
             ELSE <<">">> \o Rep("+", f1) \o <<"[", "<">> \o Rep("+", f2)
                     \o <<">", "-", "]">>
                     \o (IF diff > 0 THEN <<"<">> \o Rep("+", Abs(diff)) \o <<">">>
                         ELSE IF diff < 0 THEN <<"<">> \o Rep("-", Abs(diff)) \o <<">">>
                         ELSE <<>>)
    ELSE Rep("+", byte) \o <<">">>

\* text.rs:93-136
RECURSIVE store_bf_bytes_from(_, _, _)
store_bf_bytes_from(fact_table, bytes, k) ==
    IF k > Len(bytes) THEN <<>>
    ELSE store_byte(fact_table, bytes[k]) \o store_bf_bytes_from(fact_table, bytes, k + 1)

store_bf_bytes(bytes) == store_bf_bytes_from(factor_table, bytes, 1)

\* iter().position(): the zero-based index of the first element equal to byte
Position(store_ord, byte) ==
    (CHOOSE k \in 1..Len(store_ord) :
        store_ord[k] = byte /\ \A j \in 1..(k - 1) : store_ord[j] # byte) - 1

\* the loop of print_bf_bytes, text.rs:148-162, from byte k on
RECURSIVE print_bf_bytes_loop(_, _, _, _)
print_bf_bytes_loop(text_bytes, store_ord, curr_pos, k) ==
    IF k > Len(text_bytes) THEN <<>>
    ELSE LET new_pos == Position(store_ord, text_bytes[k])
             diff == new_pos - curr_pos
         IN  (IF diff > 0 THEN Rep(">", Abs(diff))
              ELSE IF diff < 0 THEN Rep("<", Abs(diff))
              ELSE <<>>)
                \o <<".">>
                \o print_bf_bytes_loop(text_bytes, store_ord, new_pos, k + 1)

\* text.rs:145-164
print_bf_bytes(text_bytes, store_ord, position) ==
    print_bf_bytes_loop(text_bytes, store_ord, position, 1)

\* sort() then dedup(), text.rs:38-39
RECURSIVE SortDedup(_)
SortDedup(set) ==
    IF set = {} THEN <<>>
    ELSE LET least == CHOOSE b \in set : \A c \in set : b <= c
         IN  <<least>> \o SortDedup(set \ {least})

Range(s) == {s[k] : k \in 1..Len(s)}

Encoded(code) == [ok |-> TRUE, code |-> code, error |-> NoError]

NotEncoded(error) == [ok |-> FALSE, code |-> <<>>, error |-> error]

\* text.rs:31-52
text_2_bf(text) ==
    LET bytes == text_2_bytes(text) IN
    IF ~bytes.ok THEN NotEncoded(bytes.error)
    ELSE LET store_order == SortDedup(Range(bytes.bytes))
         IN  Encoded(store_bf_bytes(store_order)
                        \o print_bf_bytes(bytes.bytes, store_order, Len(store_order)))

(***************************************************************************)
(* The encoder at work: main converts a text (main.rs:116-129) and the     *)
(* program it wrote is then given to the interpreter (main.rs:88-95).      *)
(***************************************************************************)
MaxText == 3

TextBudget == 400

\* line feed, carriage return, bytes stored with and without a correction,
\* and a character that is not ASCII
TextChars == {LF, CR, 11, 12, 17, 233}

TextInit ==
    /\ \E n \in 0..MaxText : src_text \in [1..n -> TextChars]
    /\ bf_code = NoCode
    /\ src = <<>>
    /\ stdin = <<>>
    /\ limit = TextBudget
    /\ pc = "text"
    /\ tokens = <<>>
    /\ result = Returned(<<>>)
    /\ token_stream = <<>>
    /\ ins_ptr = 0
    /\ data_ptr = 0
    /\ storage = ZeroTape
    /\ loop_stack = <<>>
    /\ port = NewPort
    /\ steps = 0
    /\ finals = [ref |-> NoRun, interpret |-> NoRun, jit |-> NoRun]
    /\ jit = NoJit
    /\ emit_pos = 0
    /\ jit_pc = NoPc

\* main.rs:117-123
DoText2Bf ==
    /\ pc = "text"
    /\ bf_code' = text_2_bf(src_text)
    /\ pc' = "written"
    /\ UNCHANGED <<src_text, src, stdin, limit, frontVars, runVars, finals, jitVars>>

\* the program written to the file is the source of a later run
RunWritten ==
    /\ pc = "written"
    /\ bf_code.ok
    /\ src' = bf_code.code
    /\ pc' = "lex"
    /\ UNCHANGED <<textVars, stdin, limit, frontVars, runVars, finals, jitVars>>

TextNext ==
    \/ DoText2Bf
    \/ RunWritten
    \/ InterpretNext

TextSpec == TextInit /\ [][TextNext]_vars

Written == pc = "written"

\* the bytes of an all-ASCII text: its characters without carriage returns
BytesOf(chars) == SelectSeq(chars, LAMBDA c : c # CR)

\* the print part walked over the cells 0 .. len - 1 that hold store_ord, as
\* in test_print_bf_bytes (text.rs:354-361); -1 marks an output off the cells
RECURSIVE PrintWalk(_, _, _, _)
PrintWalk(code, store_ord, ptr, k) ==
    IF k > Len(code) THEN <<>>
    ELSE CASE code[k] = ">" -> PrintWalk(code, store_ord, ptr + 1, k + 1)
           [] code[k] = "<" -> PrintWalk(code, store_ord, ptr - 1, k + 1)
           [] code[k] = "." ->
                <<IF ptr \in 0..(Len(store_ord) - 1) THEN At(store_ord, ptr) ELSE 0 - 1>>
                    \o PrintWalk(code, store_ord, ptr, k + 1)
           [] OTHER -> <<0 - 2>>

FirstNonAscii(chars) ==
    CHOOSE k \in 1..Len(chars) :
        ~IsAscii(chars[k]) /\ \A j \in 1..(k - 1) : IsAscii(chars[j])

LineAt(chars, k) == 1 + Cardinality({j \in 1..(k - 1) : chars[j] = LF})

ColumnAt(chars, k) ==
    LET start == Greatest({0} \cup {j \in 1..(k - 1) : chars[j] = LF})
    IN  1 + Cardinality({j \in (start + 1)..(k - 1) : chars[j] # CR})

\* C22: text_2_bytes, and so text_2_bf, fails with NonASCIIChar(c, line,
\* column) for the first non-ASCII character c of the text, at its 1-based
\* line and column with carriage returns not counted, and emits nothing then;
\* for an all-ASCII text it returns the bytes of the text in order without
\* the carriage returns.
C22_NonAsciiReported ==
    Written =>
        LET r == text_2_bytes(src_text) IN
        IF \A k \in 1..Len(src_text) : IsAscii(src_text[k])
        THEN /\ r = OkBytes(BytesOf(src_text))
             /\ bf_code.ok
             /\ bf_code.error = NoError
        ELSE LET k == FirstNonAscii(src_text) IN
             /\ r = NonASCIIChar(src_text[k], LineAt(src_text, k), ColumnAt(src_text, k))
             /\ bf_code = NotEncoded(r.error)
             /\ bf_code.code = <<>>

\* the character that is not ASCII stands on the second line, after a
\* carriage return
C22_Witness ==
    /\ Written
    /\ ~bf_code.ok
    /\ bf_code.error.kind = "NonASCIIChar"
    /\ bf_code.error.line = 2
    /\ bf_code.error.column = 1
    /\ src_text[2] = CR

(***************************************************************************)
(* The optimizer against the lexed program: every pattern program, the     *)
(* programs of the documentation and loops that miss a shape by little.    *)
(***************************************************************************)
NearPrograms ==
    { <<"+", "[", ">", "]">>,
      <<"+", "[", "-", ">", ">", "+", "<", "]">>,
      <<"+", "+", "[", "-", "-", ">", "+", "<", "]">>,
      <<"+", "[", "-", ">", "+", ">", "+", "<", "]">>,
      <<"+", "[", "-", ">", "+", "+", "<", "]">>,
      <<"+", "[", "+", ">", "+", "<", "]">>,
      <<"+", "[", "-", ">", "+", ">", "+", "+", "<", "<", "]">>,
      <<"+", "[", "-", ">", "+", ">", "+", "<", "<", "<", "]">>,
      <<"+", "+", "[", "-", "-", ">", "+", ">", "+", "<", "<", "]">>,
      <<"+", "[", "-", ">", "+", "<", ".", "]">>,
      <<"[", "-", ">", "+", "<">> \o <<"]">>,
      <<"+", "[", "[", "-", ">", "+", "<", "]", "+", "]">>,
      <<"+", "[", "[", "-", "]", ">", "]">>,
      <<"+", "[", ">", "[", "-", "]", "]">> }

\* programs shorter than the window of a pattern
ShortPrograms ==
    { <<>>, <<"+">>, <<"[", "]">>, <<"+", "[", "]">>, <<"[", "]", "+">>,
      <<"[", "-", ">", "+", "]">>, <<"[", "-", ">", "+", ">", "+", "<", "]">> }

OptSources ==
    PatternSources(0 - 2, ClearBodies \cup AddToBodies \cup AddToCopyBodies)
        \cup Programs \cup NearPrograms \cup ShortPrograms

OptInit ==
    /\ src \in OptSources
    /\ stdin \in (IF HasInput(src) THEN Inputs ELSE {<<>>})
    /\ limit = ClearBudget
    /\ InitRest

OptSpec == OptInit /\ [][Next]_vars

\* C23: when the run of the lexed opcodes terminates, the run of the stream
\* process_code returns terminates as well, having written the same bytes,
\* made the same reads and left the same tape and the same data pointer.
C23_OptimizerPreserves ==
    (BothInterpreted /\ finals.ref.status = "halted") =>
        /\ finals.interpret.status = "halted"
        /\ finals.interpret.stdout = finals.ref.stdout
        /\ finals.interpret.rd = finals.ref.rd
        /\ finals.interpret.stderr = finals.ref.stderr
        /\ finals.interpret.storage = finals.ref.storage
        /\ finals.interpret.data_ptr = finals.ref.data_ptr

\* a terminating program with output whose loop was replaced by one opcode
C23_Witness ==
    /\ BothInterpreted
    /\ finals.ref.status = "halted"
    /\ finals.ref.stdout # <<>>
    /\ \E k \in 1..Len(result.tokens) : IsPattern(result.tokens[k])
    /\ Len(result.tokens) < Len(StripLoc(Lex(src)))

\* every closer of the stream has an opener before it and no opener is left
ProperlyNested(ts) ==
    /\ \A i \in 0..(Len(ts) - 1) : TokDepth(ts, i) >= 0
    /\ Len(ts) > 0 => TokDepth(ts, Len(ts) - 1) = 0

AfterValidation == pc \in {"clear_cell", "add_to", "add_to_copy", "calculate_jumps"}

\* C24: after the bracket check and after each of the three pattern passes
\* the stream is properly nested; calculate_jumps then never pops an empty
\* stack and ends with an empty stack, and no bracket of the returned stream
\* keeps the distance 0.
C24_StaysNested ==
    /\ AfterValidation => ProperlyNested(StripLoc(tokens))
    /\ pc = "calculate_jumps" =>
          LET r == calculate_jumps(tokens) IN
          /\ ~r.panicked
          /\ r.loop_stack = <<>>
    /\ pc = "returned" =>
          /\ result.ok
          /\ \A k \in 1..Len(result.tokens) :
                result.tokens[k].op \in {"OpenBr", "CloseBr"} => result.tokens[k].a > 0
    /\ pc # "panic"

\* a loop was replaced inside a loop that stays, and the jumps are resolved
C24_Witness ==
    /\ pc = "returned"
    /\ \E k \in 1..Len(result.tokens) : IsPattern(result.tokens[k])
    /\ \E k \in 1..Len(result.tokens) :
          result.tokens[k].op = "OpenBr" /\ result.tokens[k].a > 2

NoAddToShape(ts) == \A i \in 0..(Len(ts) - 1) : ~AddToShape(ts, i)

NoAddToCopyShape(ts) == \A i \in 0..(Len(ts) - 1) : ~AddToCopyShape(ts, i)

\* C25: a stream whose loops all miss the exact AddTo shape (leading Add not
\* 255, inner Add not 1, another number of opcodes, or a net movement that is
\* not 0 modulo the tape size) is left as it is by add_to, and likewise by
\* add_to_copy for the AddToCopy shape; the opcodes that reach
\* calculate_jumps are returned in the same order with only the bracket
\* distances filled in.
C25_DeviantLoopKept ==
    [][/\ (pc = "add_to" /\ NoAddToShape(StripLoc(tokens))) => tokens' = tokens
       /\ (pc = "add_to_copy" /\ NoAddToCopyShape(StripLoc(tokens))) => tokens' = tokens
       /\ pc = "calculate_jumps" =>
             /\ pc' = "returned"
             /\ result'.tokens = WithJumps(StripLoc(tokens))]_vars

\* the loop [->>+<], whose body does not return to its cell, is returned whole
C25_Witness ==
    /\ pc = "returned"
    /\ src = <<"+", "[", "-", ">", ">", "+", "<", "]">>
    /\ result.tokens =
          <<Add(1), OpenBr(5), Add(U8_MOD - 1), Move(2), Add(1),
            Move(STORAGE_SIZE - 1), CloseBr(5)>>

\* the first and the last index of a stream
Ends(ts) == {0, Len(ts) - 1} \cap (0..(Len(ts) - 1))

\* C26: on a balanced stream clear_cell, add_to and add_to_copy never index
\* outside the stream and never take an index below 0, whatever its length
\* and wherever a pattern stands; and the absorption of the loops around a
\* pattern opcode does nothing when that opcode is the first or the last
\* element of the stream.
C26_PassesStayInside ==
    /\ pc = "clear_cell" =>
          /\ ~clear_cell(tokens).panicked
          /\ \A i \in Ends(tokens) :
                clear_cell_absorb(tokens, i) = PassResult(tokens, i, FALSE)
    /\ pc = "add_to" =>
          /\ ~add_to(tokens).panicked
          /\ \A i \in Ends(tokens) :
                add_to_absorb(tokens, i) = PassResult(tokens, i, FALSE)
    /\ pc = "add_to_copy" =>
          /\ ~add_to_copy(tokens).panicked
          /\ \A i \in Ends(tokens) :
                add_to_copy_absorb(tokens, i) = PassResult(tokens, i, FALSE)
    /\ result # Panic

\* the loops around an AddToCopy were absorbed up to both ends of the stream
C26_Witness ==
    /\ pc = "calculate_jumps"
    /\ Len(tokens) = 1
    /\ tokens[1].tok.op = "AddToCopy"
    /\ Len(Lex(src)) >= 10

\* a distance an opcode may carry
Distance == 1..(STORAGE_SIZE - 1)

\* pointers at and next to both ends of the tape
EdgePointers == {0, 1, STORAGE_SIZE - 2, STORAGE_SIZE - 1}

\* C27: in the returned stream every Move and AddTo carries a distance in
\* 1..TAPE-1 and every AddToCopy two different distances in 1..TAPE-1, so
\* that adding the distance to the pointer and subtracting TAPE at most once
\* gives the wrapped pointer, and no pattern opcode targets its own cell.
C27_DistancesInRange ==
    pc = "returned" =>
        \A k \in 1..Len(result.tokens) :
            LET t == result.tokens[k] IN
            /\ t.op \in {"Move", "AddTo", "AddToCopy"} =>
                  /\ t.a \in Distance
                  /\ \A p \in EdgePointers :
                        /\ interpret_move(p, t.a) = (p + t.a) % STORAGE_SIZE
                        /\ t.op # "Move" => pattern_target(p, t.a) # p
            /\ t.op = "AddToCopy" =>
                  /\ t.b \in Distance
                  /\ t.b # t.a
                  /\ \A p \in EdgePointers : pattern_target(p, t.b) # p

\* a copy loop whose first target lies to the left: the step of 1 to the left
\* is the distance TAPE - 1
C27_Witness ==
    /\ pc = "returned"
    /\ \E k \in 1..Len(result.tokens) :
          result.tokens[k] = AddToCopy(STORAGE_SIZE - 1, 1)
    /\ \E k \in 1..Len(result.tokens) :
          result.tokens[k].op = "Move" /\ result.tokens[k].a = STORAGE_SIZE - 1

\* the branches emitted so far that target block b
Branches(j, b) ==
    Cardinality({p \in UNION {{<<m, n>> : n \in 1..Len(j.blocks[m])} :
                               m \in 1..Len(j.blocks)} :
                    /\ j.blocks[p[1]][p[2]].op = "brif"
                    /\ b \in {j.blocks[p[1]][p[2]].a, j.blocks[p[1]][p[2]].b}})

Sealed(j) == Range(j.seals)

SealedOnce(j) ==
    \A m, n \in 1..Len(j.seals) : j.seals[m] = j.seals[n] => m = n

\* C28: while the JIT emits a finalized stream, the entry block is sealed
\* when it is created, no block is sealed twice, a loop's body and after
\* blocks are sealed at its CloseBr when both branches to them exist, no
\* branch to a sealed block is emitted later, the stack of block pairs is
\* never popped empty, and at finalize it is empty and every block is sealed.
C28_SealedAfterBranches ==
    [][/\ (pc = "jit" /\ pc' = "jit_emit") =>
             /\ Len(jit'.blocks) = 1
             /\ jit'.seals = <<0>>
       /\ pc = "jit_emit" =>
             /\ pc' # "panic"
             /\ ~jit'.panicked
             /\ SealedOnce(jit')
             /\ \A b \in Sealed(jit) : Branches(jit', b) = Branches(jit, b)
             /\ \A b \in Sealed(jit') \ Sealed(jit) : Branches(jit', b) = 2
             /\ pc' = "jit_run" =>
                   /\ jit.stack = <<>>
                   /\ Sealed(jit) = 0..(Len(jit.blocks) - 1)]_vars

\* an inner loop has been closed and its blocks sealed while the loop around
\* it is still open
C28_Witness ==
    /\ pc = "jit_emit"
    /\ Len(jit.stack) = 1
    /\ Len(jit.seals) = 3
    /\ Len(jit.blocks) = 5

\* no two neighbours of the stream are both Adds or both Moves
NoAdjacent(ts) == \A k \in 1..(Len(ts) - 1) : ~SameKind(ts[k], ts[k + 1])

\* C29: merge_adjacent leaves no two neighbouring Adds and no two
\* neighbouring Moves, also where a run that cancels is deleted between two
\* runs of the other kind; no pattern pass brings two together; so the
\* returned stream has none.
C29_NoAdjacentRuns ==
    /\ pc \in {"check_loops", "clear_cell", "add_to", "add_to_copy", "calculate_jumps"} =>
          NoAdjacent(StripLoc(tokens))
    /\ pc = "returned" => NoAdjacent(result.tokens)

\* the run +- between two > cancels and the two Moves become one
C29_Witness ==
    /\ pc = "returned"
    /\ src = <<">", "+", "-", ">", ".">>
    /\ result.tokens = <<Move(2), Output>>

\* the loops being iterated when the instruction at index ip is next: the
\* OpenBr before ip whose CloseBr is at ip or after it
Iterated(ts, ip) ==
    {i \in 0..(ip - 1) : At(ts, i).op = "OpenBr" /\ MatchingClose(ts, i) >= ip}

Running == pc \in {"ref", "interpret"}

\* C30: the loop stack of the interpreter holds, innermost last, exactly the
\* loops being iterated (a skipped loop is not among them); when a CloseBr is
\* next the stack is not empty and its top is the matching OpenBr; and the
\* stack is empty when the run ends.
C30_LoopStack ==
    Running =>
        /\ Range(loop_stack) = Iterated(token_stream, ins_ptr)
        /\ \A m, n \in 1..Len(loop_stack) : m < n => loop_stack[m] < loop_stack[n]
        /\ (~Halted /\ At(token_stream, ins_ptr).op = "CloseBr") =>
              /\ loop_stack # <<>>
              /\ loop_stack[Len(loop_stack)] = MatchingOpen(token_stream, ins_ptr)
        /\ Halted => loop_stack = <<>>

\* the CloseBr of a loop inside another is next and the cell is not 0
C30_Witness ==
    /\ pc = "interpret"
    /\ ~Halted
    /\ At(token_stream, ins_ptr).op = "CloseBr"
    /\ Cell(storage, data_ptr) # 0
    /\ Len(loop_stack) = 2

\* a loop inside a loop being iterated has been skipped
C30_WitnessSkipped ==
    /\ pc = "interpret"
    /\ Len(loop_stack) = 1
    /\ ins_ptr > 0
    /\ At(token_stream, ins_ptr - 1).op = "CloseBr"
    /\ At(token_stream, ins_ptr - 2).op = "OpenBr"

====
